---------------------------- MODULE Spec2Model ----------------------------
(***************************************************************************)
(* sparkles-gui backend: the per-channel event storage (storage.rs), the   *)
(* decimator (event_skipper.rs, process_range_events), the producer actor  *)
(* (sparkles_connection.rs run) and the WebSocket session                  *)
(* (ws_connection.rs handle_socket).                                       *)
(*                                                                         *)
(* Timestamps are u64 in the source; the model draws them from Times, far  *)
(* from 2^64, so no arithmetic of the modelled paths wraps.                *)
(***************************************************************************)
EXTENDS Integers, Sequences, FiniteSets, TLC

(***************************************************************************)
(* Bounds of the model.                                                    *)
(***************************************************************************)
Times == 0..3                 \* timestamps of instants
RangeTimes == 0..2            \* start and end of ranges
WindowEdges == 0..4           \* start and end of a requested window
NameIds == {1, 2}             \* GeneralEventNameId values of instants
RangeNameIds == {1}           \* name_id values of ranges
OriginThreads == {7}          \* start_thread_ord_id of cross-thread ranges
EndNameIds == {1, 255, 256}   \* end_name_id values of ranges, when present
MaxInstants == 4              \* instants inserted into the storage under test
MaxRanges == 4                \* ranges inserted into the storage under test
MaxWs == 2                    \* WebSocket sessions opened
QuerySessions == 1            \* ... of them where the tickers query the actors
MaxConnects == 3              \* Connect commands of the browsers
SpecConnects == 1             \* ... of them in the whole-system specification
MaxRequests == 5              \* RequestNewRange commands of the browsers
SpecRequests == 2             \* those of Spec and SpecDispatch
MaxBatches == 3               \* messages of the producer readers
SpecBatches == 2              \* ... of them in the whole-system specification
MaxTicks == 1                 \* firings of the discovery ticker
MaxQueryTicks == 2            \* firings of the active-connections and sync tickers
ElapsedNs == {0, 1}           \* nanoseconds since the last batch, as the actor reads them
MaxBatchLen == 2              \* events of one batch, where batches are enumerated
MaxDisconnects == 2           \* Disconnect commands of the browsers
Addrs == {"a1", "a2"}         \* producer addresses
ConnectAddrs == {"a1", "a2", "b1"}  \* ... and one outside every discovered group
DiscoveredClients == << {"a1", "a2"} >>   \* SharedData.discovered_clients
ConnIdInputs == {0, 1}        \* conn_id values a browser names
RequestWindows == {<< 0, 4 >>}  \* (start, end) a browser asks for
MaxRegistryCalls == 5         \* calls of each new_*_connection on the registry under test
MaxFrameInstants == 1         \* instants stored before a frame is encoded
MaxFrameRanges == 2           \* ranges stored before a frame is encoded
MaxLaneInstants == 2          \* instants stored next to the ranges of SpecLanes
MaxLaneRanges == 3            \* ranges stored next to the instants of SpecLanes
MaxDecisions == 6             \* should_keep_* calls on the skipper under test
SkipThresholds == 0..2        \* skip_thr of the skipper under test
TotalEvents == 0..5           \* total_events of the skipper under test
Distances == 0..2             \* tm_diff, start_distance and duration

(***************************************************************************)
(* Program constants, scaled down so that their cases are reachable within *)
(* the bounds: the source has MAX_EV_CNT = 50_000, a horizontal resolution *)
(* of 2000, lanes 0..255 (clamp at 255) and reply channels of capacity 5.  *)
(***************************************************************************)
MAX_EV_CNT == 2
PX_RESOLUTION == 2
LAST_Y == 2
EVENTS_CHANNEL_CAP == 2
\* The id counters are u32: 2^32 values in the source, 4 here.
MSG_ID_MODULUS == 8
ID_MODULUS == 4

(***************************************************************************)
(* Option<T>                                                               *)
(***************************************************************************)
None == << >>
Some(x) == << x >>
IsSome(o) == o # None
Unwrap(o) == o[1]

Min(a, b) == IF a <= b THEN a ELSE b
Max(a, b) == IF a >= b THEN a ELSE b

\* Ascending enumeration of a finite set of numbers (BTreeMap key order).
RECURSIVE SortedSeq(_)
SortedSeq(S) ==
    IF S = {} THEN << >>
    ELSE LET m == CHOOSE x \in S : \A y \in S : x <= y
         IN << m >> \o SortedSeq(S \ {m})

\* Number of positions of seq holding x.
CountIn(seq, x) == Cardinality({i \in DOMAIN seq : seq[i] = x})

\* Two sequences hold the same elements the same number of times.
SameBag(a, b) ==
    /\ Len(a) = Len(b)
    /\ \A i \in DOMAIN a : CountIn(a, a[i]) = CountIn(b, a[i])

\* `+= 1` on a u32 id counter: wraps where overflow checks are off and
\* panics where they are on.
add_one_u32(id) == (id + 1) % ID_MODULUS
overflows_u32(id) == id + 1 >= ID_MODULUS

\* The same for the u32 last_msg_id of a session.
add_one_msg_id(id) == (id + 1) % MSG_ID_MODULUS
overflows_msg_id(id) == id + 1 >= MSG_ID_MODULUS

InsertAt(seq, pos, x) ==      \* VecDeque::insert(pos, x), pos 0-based
    SubSeq(seq, 1, pos) \o << x >> \o SubSeq(seq, pos + 1, Len(seq))

(***************************************************************************)
(* storage.rs: RangeEventStorage<T>                                        *)
(***************************************************************************)
\* #[derive(Default)]: an empty slab and an empty start index.
RangeEventStorage_default == [events |-> << >>, starts_index |-> << >>]

\* The slab never removes, so Slab::insert hands out 0, 1, 2, ...
RangeEventStorage_insert(rs, start, end, name_id, end_name_id, extra) ==
    LET id == Len(rs.events)
        idx == rs.starts_index
    IN [events |-> Append(rs.events,
                     [end |-> end, name_id |-> name_id,
                      end_name_id |-> end_name_id, extra |-> extra]),
        starts_index |->
            IF start \in DOMAIN idx
            THEN [idx EXCEPT ![start] = Append(@, id)]
            ELSE [k \in (DOMAIN idx) \cup {start} |->
                     IF k = start THEN << id >> ELSE idx[k]]]

RangeEventStorage_len(rs) == Len(rs.events)

\* Mutant of range_in_window: a range ending exactly at the window's start
\* counts as overlapping.
range_in_window_end_inclusive(start_time, end_time, start, end) ==
    start_time < end /\ end_time >= start

\* The filter of request_events: the closure's condition on one slot.
range_in_window(start_time, end_time, start, end) ==
    start_time < end /\ end_time > start

\* The inner filter_map over the ids of one start bucket.
RECURSIVE bucket_events(_, _, _, _, _, _)
bucket_events(rs, start_time, ids, i, start, end) ==
    IF i > Len(ids) THEN << >>
    ELSE LET id == ids[i]
             rest == bucket_events(rs, start_time, ids, i + 1, start, end)
         IN IF id >= Len(rs.events) THEN rest          \* events.get(id)?
            ELSE LET e == rs.events[id + 1]
                 IN IF range_in_window(start_time, e.end, start, end)
                    THEN << [start |-> start_time, end |-> e.end,
                             name_id |-> e.name_id,
                             end_name_id |-> e.end_name_id,
                             extra |-> e.extra] >> \o rest
                    ELSE rest

RECURSIVE flat_map_buckets(_, _, _, _, _)
flat_map_buckets(rs, keys, i, start, end) ==
    IF i > Len(keys) THEN << >>
    ELSE bucket_events(rs, keys[i], rs.starts_index[keys[i]], 1, start, end)
         \o flat_map_buckets(rs, keys, i + 1, start, end)

\* starts_index.range(..end).flat_map(...)
request_events(rs, start, end) ==
    flat_map_buckets(rs,
        SortedSeq({k \in DOMAIN rs.starts_index : k < end}), 1, start, end)

(***************************************************************************)
(* storage.rs: ChannelEventsStorage                                        *)
(***************************************************************************)
ChannelEventsStorage_default ==
    [event_names |-> << >>,
     instant_events |-> << >>,
     range_events |-> RangeEventStorage_default,
     cross_thread_range_events |-> RangeEventStorage_default]

StoredInstantEvent(tm, name_id) == [tm |-> tm, name_id |-> name_id]

\* partition_point(|e| e.tm < x): binary search for the first index whose
\* element fails the predicate (0-based; lo..hi is the open part).
RECURSIVE partition_point(_, _, _, _)
partition_point(seq, x, lo, hi) ==
    IF lo >= hi THEN lo
    ELSE LET mid == lo + ((hi - lo) \div 2)
         IN IF seq[mid + 1].tm < x
            THEN partition_point(seq, x, mid + 1, hi)
            ELSE partition_point(seq, x, lo, mid)

\* Mutant of insert_instant_event: the slow path is missing, every event is
\* appended.
insert_instant_event_append_only(cs, tm, name_id) ==
    [cs EXCEPT !.instant_events = Append(@, StoredInstantEvent(tm, name_id))]

insert_instant_event(cs, tm, name_id) ==
    LET event == StoredInstantEvent(tm, name_id)
        q == cs.instant_events
    IN IF Len(q) > 0 /\ q[Len(q)].tm <= event.tm
       THEN [cs EXCEPT !.instant_events = Append(q, event)]
       ELSE [cs EXCEPT !.instant_events =
                InsertAt(q, partition_point(q, event.tm, 0, Len(q)), event)]

\* Mutant of request_instant_events: the window's end is inclusive.
request_instant_events_end_inclusive(cs, start, end) ==
    LET q == cs.instant_events
        s == partition_point(q, start, 0, Len(q))
        e == partition_point(q, end + 1, 0, Len(q))
    IN SubSeq(q, s + 1, e)

\* iter().skip(start).take(end - start); the subtraction is on usize.
request_instant_events(cs, start, end) ==
    LET q == cs.instant_events
        s == partition_point(q, start, 0, Len(q))
        e == partition_point(q, end, 0, Len(q))
    IN SubSeq(q, s + 1, e)

insert_range_event(cs, start, end, name_id, end_name_id, start_thread_id) ==
    IF IsSome(start_thread_id)
    THEN [cs EXCEPT !.cross_thread_range_events =
            RangeEventStorage_insert(@, start, end, name_id, end_name_id,
                                     Unwrap(start_thread_id))]
    ELSE [cs EXCEPT !.range_events =
            RangeEventStorage_insert(@, start, end, name_id, end_name_id, None)]

request_range_events(cs, start, end) ==
    request_events(cs.range_events, start, end)

request_cross_thread_range_events(cs, start, end) ==
    request_events(cs.cross_thread_range_events, start, end)

(***************************************************************************)
(* event_skipper.rs: EventSkipper                                          *)
(***************************************************************************)
\* Mutant of EventSkipper_new: skip_cnt is rounded down.
EventSkipper_new_floor(skip_thr, max_events, total_events) ==
    LET ks == IF total_events > max_events
              THEN << 1, total_events \div max_events >>
              ELSE IF total_events > 0
                   THEN << max_events \div total_events, 1 >>
                   ELSE << 1, 1 >>
    IN [skip_thr |-> skip_thr,
        max_events |-> max_events,
        keep_cnt |-> ks[1],
        skip_cnt |-> ks[2],
        counter |-> 0,
        cycle_len |-> ks[1] + ks[2],
        skipped_count |-> 0,
        total_count |-> 0]

EventSkipper_new(skip_thr, max_events, total_events) ==
    LET ks == IF total_events > max_events
              THEN << 1, (total_events + max_events - 1) \div max_events >>
              ELSE IF total_events > 0
                   THEN << max_events \div total_events, 1 >>
                   ELSE << 1, 1 >>
    IN [skip_thr |-> skip_thr,
        max_events |-> max_events,
        keep_cnt |-> ks[1],
        skip_cnt |-> ks[2],
        counter |-> 0,
        cycle_len |-> ks[1] + ks[2],
        skipped_count |-> 0,
        total_count |-> 0]

\* Mutant of should_keep_instant: a far event does not reset the counter.
should_keep_instant_no_reset(sk, tm_diff) ==
    LET close == tm_diff < sk.skip_thr
        keep == IF close THEN sk.counter < sk.keep_cnt ELSE TRUE
    IN << keep,
          [sk EXCEPT !.total_count = @ + 1,
                     !.counter = IF close THEN (@ + 1) % sk.cycle_len ELSE @,
                     !.skipped_count = IF keep THEN @ ELSE @ + 1] >>

\* Both should_keep_* return the decision and leave the skipper updated:
\* the pair << should_keep, skipper after the call >>.
should_keep_instant(sk, tm_diff) ==
    LET close == tm_diff < sk.skip_thr
        keep == IF close THEN sk.counter < sk.keep_cnt ELSE TRUE
    IN << keep,
          [sk EXCEPT !.total_count = @ + 1,
                     !.counter = IF close THEN (@ + 1) % sk.cycle_len ELSE 0,
                     !.skipped_count = IF keep THEN @ ELSE @ + 1] >>

\* Mutant of should_keep_range: the duration is not looked at.
should_keep_range_distance_only(sk, start_distance, duration) ==
    LET close == start_distance < sk.skip_thr
        keep == IF close THEN sk.counter < sk.keep_cnt ELSE TRUE
    IN << keep,
          [sk EXCEPT !.total_count = @ + 1,
                     !.counter = IF close THEN (@ + 1) % sk.cycle_len ELSE 0,
                     !.skipped_count = IF keep THEN @ ELSE @ + 1] >>

should_keep_range(sk, start_distance, duration) ==
    LET close == start_distance < sk.skip_thr /\ duration < sk.skip_thr
        keep == IF close THEN sk.counter < sk.keep_cnt ELSE TRUE
    IN << keep,
          [sk EXCEPT !.total_count = @ + 1,
                     !.counter = IF close THEN (@ + 1) % sk.cycle_len ELSE 0,
                     !.skipped_count = IF keep THEN @ ELSE @ + 1] >>

\* EventSkippingProcessor::new
EventSkippingProcessor_new(skip_thr, max_events, instant_count, range_count) ==
    [instant_skipper |-> EventSkipper_new(skip_thr, max_events, instant_count),
     range_skipper |-> EventSkipper_new(skip_thr, max_events, range_count)]

\* Mutant of get_stats: the skipped counts change places in the tuple.
get_stats_swapped(processor) ==
    [skipped_instant |-> processor.range_skipper.skipped_count,
     skipped_range |-> processor.instant_skipper.skipped_count,
     total_instant |-> processor.instant_skipper.total_count,
     total_range |-> processor.range_skipper.total_count]

\* EventSkippingProcessor::get_stats, as the EventsSkipStats built from it
get_stats(processor) ==
    [skipped_instant |-> processor.instant_skipper.skipped_count,
     skipped_range |-> processor.range_skipper.skipped_count,
     total_instant |-> processor.instant_skipper.total_count,
     total_range |-> processor.range_skipper.total_count]

(***************************************************************************)
(* sparkles_connection.rs: merge_range_events, process_range_events        *)
(***************************************************************************)
\* RangeEventType::Local / CrossThread
Local(r) == [kind |-> "Local", start |-> r.start, end |-> r.end,
             name_id |-> r.name_id, end_name_id |-> r.end_name_id,
             thread_id |-> None]
CrossThread(r) == [kind |-> "CrossThread", start |-> r.start, end |-> r.end,
                   name_id |-> r.name_id, end_name_id |-> r.end_name_id,
                   thread_id |-> Some(r.extra)]

\* Mutant of take_local: a tie goes to the cross-thread head.
take_local_strict(local, cross_thread) == local.start < cross_thread.start

\* Which of the two peeked heads the merge takes next.
take_local(local, cross_thread) == local.start <= cross_thread.start

RECURSIVE merge_range_events(_, _)
merge_range_events(local_events, cross_thread_events) ==
    IF local_events # << >> /\ cross_thread_events # << >>
    THEN IF take_local(Head(local_events), Head(cross_thread_events))
         THEN << Local(Head(local_events)) >>
              \o merge_range_events(Tail(local_events), cross_thread_events)
         ELSE << CrossThread(Head(cross_thread_events)) >>
              \o merge_range_events(local_events, Tail(cross_thread_events))
    ELSE IF local_events # << >>
    THEN << Local(Head(local_events)) >>
         \o merge_range_events(Tail(local_events), cross_thread_events)
    ELSE IF cross_thread_events # << >>
    THEN << CrossThread(Head(cross_thread_events)) >>
         \o merge_range_events(local_events, Tail(cross_thread_events))
    ELSE << >>

\* Mutant of expired: an entry leaves one tick before its end.
expired_one_early(active_end, range_start) == active_end <= range_start + 1

\* An entry of active_ranges leaves when the range being placed starts at
\* or after its end.
expired(active_end, range_start) == active_end <= range_start

\* The while loop with swap_remove over active_ranges (i is 0-based); gives
\* << active_ranges, used_y_levels >> after it.
RECURSIVE remove_expired(_, _, _, _)
remove_expired(active_ranges, used_y_levels, i, range_start) ==
    IF i >= Len(active_ranges) THEN << active_ranges, used_y_levels >>
    ELSE IF expired(active_ranges[i + 1][1], range_start)
    THEN LET n == Len(active_ranges)
             expired_y == active_ranges[i + 1][2]
             swapped == IF i + 1 = n THEN SubSeq(active_ranges, 1, n - 1)
                        ELSE [SubSeq(active_ranges, 1, n - 1)
                                 EXCEPT ![i + 1] = active_ranges[n]]
         IN remove_expired(swapped, used_y_levels \ {expired_y}, i, range_start)
    ELSE remove_expired(active_ranges, used_y_levels, i + 1, range_start)

\* while y_pos < 255 && used_y_levels[y_pos] { y_pos += 1 }
RECURSIVE first_free_y(_, _)
first_free_y(used_y_levels, y_pos) ==
    IF y_pos < LAST_Y /\ y_pos \in used_y_levels
    THEN first_free_y(used_y_levels, y_pos + 1)
    ELSE y_pos

\* The locals of process_range_events before the loop; used_y_levels is the
\* set of indexes holding true.
process_range_init(processor) ==
    [active_ranges |-> << >>,
     used_y_levels |-> {},
     local_range_buf |-> << >>,
     cross_thread_range_buf |-> << >>,
     max_range_y |-> 0,
     prev_range_start |-> None,
     prev_start |-> 0,
     processor |-> processor,
     panicked |-> FALSE]

\* Mutant of mark_used: the placed range does not hold its lane.
mark_used_nothing(used_y_levels, y_pos) == used_y_levels

\* What is marked used once a range is placed at y_pos.
mark_used(used_y_levels, y_pos) == used_y_levels \cup {y_pos}

\* One iteration of the for loop over the merged events.
process_range_step(st, event, skip_thr) ==
    IF st.panicked THEN st
    ELSE IF event.start < st.prev_start THEN [st EXCEPT !.panicked = TRUE]
    ELSE
    LET range_start == event.start
        range_end == event.end
        duration == range_end - range_start
        start_distance == IF IsSome(st.prev_range_start)
                          THEN range_start - Unwrap(st.prev_range_start)
                          ELSE skip_thr + 1
        dec == should_keep_range(st.processor.range_skipper,
                                 start_distance, duration)
        after == remove_expired(st.active_ranges, st.used_y_levels, 0,
                                range_start)
        y_pos == first_free_y(after[2], 0)
        rec == [start |-> range_start, end |-> range_end,
                name_id |-> event.name_id, end_name_id |-> event.end_name_id,
                y |-> y_pos, thread_id |-> event.thread_id]
        st1 == [st EXCEPT !.prev_start = range_start,
                          !.prev_range_start = Some(range_start),
                          !.processor.range_skipper = dec[2]]
    IN IF dec[1]
       THEN [st1 EXCEPT
               !.active_ranges = Append(after[1], << range_end, y_pos >>),
               !.used_y_levels = mark_used(after[2], y_pos),
               !.max_range_y = Max(@, y_pos),
               !.local_range_buf =
                   IF IsSome(event.thread_id) THEN @ ELSE Append(@, rec),
               !.cross_thread_range_buf =
                   IF IsSome(event.thread_id) THEN Append(@, rec) ELSE @]
       ELSE st1

RECURSIVE process_range_loop(_, _, _, _)
process_range_loop(st, merged, i, skip_thr) ==
    IF i > Len(merged) THEN st
    ELSE process_range_loop(process_range_step(st, merged[i], skip_thr),
                            merged, i + 1, skip_thr)

\* Gives the final locals; the function's result is
\* (local_range_buf, cross_thread_range_buf, max_range_y), and the processor
\* it borrowed is left as in .processor.
process_range_events(local_events, cross_thread_events, processor, skip_thr) ==
    process_range_loop(process_range_init(processor),
                       merge_range_events(local_events, cross_thread_events),
                       1, skip_thr)

(***************************************************************************)
(* sparkles_connection.rs run: the body of the per-channel loop of one     *)
(* dispatched request.  Buffers are kept as the records written to them.   *)
(***************************************************************************)
skip_threshold(start, end) == (end - start) \div PX_RESOLUTION

\* The for loop over the instants of the window: the decision taken at an
\* event is about the instant before it.  st is
\* [buf, prev_instant, processor].
RECURSIVE instant_loop(_, _, _, _)
instant_loop(st, events, i, instant_y) ==
    IF i > Len(events) THEN st
    ELSE
    LET event == events[i]
        st1 ==
          IF IsSome(st.prev_instant)
          THEN LET prev == Unwrap(st.prev_instant)
                   dec == should_keep_instant(st.processor.instant_skipper,
                                              event.tm - prev.tm)
               IN [st EXCEPT
                     !.processor.instant_skipper = dec[2],
                     !.buf = IF dec[1]
                             THEN Append(@, [tm |-> prev.tm,
                                             name_id |-> prev.name_id,
                                             y |-> instant_y])
                             ELSE @]
          ELSE st
    IN instant_loop([st1 EXCEPT !.prev_instant = Some(event)],
                    events, i + 1, instant_y)

\* Mutant of instant_lane: the instants share the top lane of the ranges.
instant_lane_of_ranges(max_range_y) == max_range_y

\* let instant_y = if max_range_y < 255 { max_range_y + 1 } else { 255 }
instant_lane(max_range_y) ==
    IF max_range_y < LAST_Y THEN max_range_y + 1 ELSE LAST_Y

\* Mutant of flush_last_instant: the buffered instant is dropped.
flush_last_instant_never(il, instant_y) == il.buf

\* "Handle last instant event": the instant still buffered after the loop is
\* written without asking the skipper.
flush_last_instant(il, instant_y) ==
    IF IsSome(il.prev_instant)
    THEN Append(il.buf, [tm |-> Unwrap(il.prev_instant).tm,
                         name_id |-> Unwrap(il.prev_instant).name_id,
                         y |-> instant_y])
    ELSE il.buf

\* The frame and statistics sent for one channel; panicked is set when the
\* merge-order check of process_range_events fired.
channel_frame(channel_storage, start, end) ==
    LET instants == request_instant_events(channel_storage, start, end)
        locals == request_range_events(channel_storage, start, end)
        crosses == request_cross_thread_range_events(channel_storage, start, end)
        skip_thr == skip_threshold(start, end)
        processor == EventSkippingProcessor_new(skip_thr, MAX_EV_CNT,
                        Len(instants), Len(locals) + Len(crosses))
        rg == process_range_events(locals, crosses, processor, skip_thr)
        instant_y == instant_lane(rg.max_range_y)
        il == instant_loop([buf |-> << >>, prev_instant |-> None,
                            processor |-> rg.processor],
                           instants, 1, instant_y)
        buf == flush_last_instant(il, instant_y)
    IN [instants |-> buf,
        range_buf |-> rg.local_range_buf,
        foreign_range_buf |-> rg.cross_thread_range_buf,
        stats |-> get_stats(il.processor),
        panicked |-> rg.panicked]

\* u32::to_le_bytes and its inverse
to_le_bytes_u32(n) ==
    << n % 256, (n \div 256) % 256, (n \div 65536) % 256,
       (n \div 16777216) % 256 >>
from_le_bytes_u32(b) == b[1] + 256 * b[2] + 65536 * b[3] + 16777216 * b[4]

(***************************************************************************)
(* sparkles_connection.rs: the bytes of a frame.  A buffer of the model is *)
(* the sequence of records written to it; these operators give the bytes   *)
(* the code pushes for each record, and the decoding of those bytes by the *)
(* frame grammar as the client performs it.                                *)
(***************************************************************************)
SENTINEL == 255

\* to_le_bytes of an unsigned integer of k bytes
RECURSIVE to_le_bytes(_, _)
to_le_bytes(n, k) ==
    IF k = 0 THEN << >>
    ELSE << n % 256 >> \o to_le_bytes(n \div 256, k - 1)

to_le_bytes_u64(n) == to_le_bytes(n, 8)
to_le_bytes_u16(n) == to_le_bytes(n, 2)

\* end_id.to_le_bytes() when present, push(255) when absent
encode_end_id(end_id) ==
    IF IsSome(end_id) THEN to_le_bytes_u16(Unwrap(end_id))
    ELSE << SENTINEL >>

\* The bytes pushed for one kept range.
encode_range(rec) ==
    to_le_bytes_u64(rec.start) \o to_le_bytes_u64(rec.end)
    \o to_le_bytes_u16(rec.name_id) \o encode_end_id(rec.end_name_id)
    \o << rec.y >>
    \o (IF IsSome(rec.thread_id) THEN to_le_bytes_u64(Unwrap(rec.thread_id))
        ELSE << >>)

\* The bytes pushed for one kept instant.
encode_instant(rec) ==
    to_le_bytes_u64(rec.tm) \o to_le_bytes_u16(rec.name_id) \o << rec.y >>

RECURSIVE encode_buf(_, _, _)
encode_buf(recs, i, range) ==
    IF i > Len(recs) THEN << >>
    ELSE (IF range THEN encode_range(recs[i]) ELSE encode_instant(recs[i]))
         \o encode_buf(recs, i + 1, range)

\* One section of res_buf: the u32 length of the buffer, then the buffer.
encode_section(bytes) == to_le_bytes_u32(Len(bytes)) \o bytes

\* res_buf of one channel: instants, local ranges, cross-thread ranges.
encode_frame(frame) ==
    encode_section(encode_buf(frame.instants, 1, FALSE))
    \o encode_section(encode_buf(frame.range_buf, 1, TRUE))
    \o encode_section(encode_buf(frame.foreign_range_buf, 1, TRUE))

\* Decoding by the frame grammar.  A section that does not divide into
\* whole records decodes to Malformed.
Malformed == << [malformed |-> TRUE] >>

RECURSIVE from_le_bytes(_)
from_le_bytes(b) ==
    IF b = << >> THEN 0 ELSE b[1] + 256 * from_le_bytes(Tail(b))

Drop(b, n) == SubSeq(b, n + 1, Len(b))

RECURSIVE decode_instants(_)
decode_instants(b) ==
    IF b = << >> THEN << >>
    ELSE IF Len(b) < 11 THEN Malformed
    ELSE LET rest == decode_instants(Drop(b, 11))
         IN IF rest = Malformed THEN Malformed
            ELSE << [tm |-> from_le_bytes(SubSeq(b, 1, 8)),
                     name_id |-> from_le_bytes(SubSeq(b, 9, 10)),
                     y |-> b[11]] >> \o rest

\* The end name of a range: one SENTINEL byte is the absence marker, any
\* other byte starts a two-byte end_name_id.  The result is the value and
\* the number of bytes read.
decode_end_id(b) ==
    IF b[1] = SENTINEL THEN << None, 1 >>
    ELSE IF Len(b) < 2 THEN << None, 0 >>
    ELSE << Some(from_le_bytes(SubSeq(b, 1, 2))), 2 >>

RECURSIVE decode_ranges(_, _)
decode_ranges(b, cross) ==
    IF b = << >> THEN << >>
    ELSE IF Len(b) < 19 THEN Malformed
    ELSE
    LET end_id == decode_end_id(Drop(b, 18))
        y_at == 18 + end_id[2] + 1
        len == y_at + (IF cross THEN 8 ELSE 0)
    IN IF end_id[2] = 0 \/ Len(b) < len THEN Malformed
       ELSE LET rest == decode_ranges(Drop(b, len), cross)
            IN IF rest = Malformed THEN Malformed
               ELSE << [start |-> from_le_bytes(SubSeq(b, 1, 8)),
                        end |-> from_le_bytes(SubSeq(b, 9, 16)),
                        name_id |-> from_le_bytes(SubSeq(b, 17, 18)),
                        end_name_id |-> end_id[1],
                        y |-> b[y_at],
                        thread_id |->
                          IF cross
                          THEN Some(from_le_bytes(SubSeq(b, y_at + 1, len)))
                          ELSE None] >> \o rest

\* The three sections of a frame, each behind its u32 length.
decode_frame(b) ==
    LET n1 == from_le_bytes_u32(SubSeq(b, 1, 4))
        b2 == Drop(b, 4 + n1)
        n2 == from_le_bytes_u32(SubSeq(b2, 1, 4))
        b3 == Drop(b2, 4 + n2)
        n3 == from_le_bytes_u32(SubSeq(b3, 1, 4))
    IN [instants |-> decode_instants(SubSeq(b, 5, 4 + n1)),
        range_buf |-> decode_ranges(SubSeq(b2, 5, 4 + n2), FALSE),
        foreign_range_buf |-> decode_ranges(SubSeq(b3, 5, 4 + n3), TRUE)]

(***************************************************************************)
(* sparkles_connection.rs run: the ingestion arms.                         *)
(***************************************************************************)
Thread(id) == << "Thread", id >>
External(id) == << "External", id >>

\* storage.channel_events.entry(channel_id).or_default()
entry_or_default(channel_events, channel_id) ==
    IF channel_id \in DOMAIN channel_events THEN channel_events
    ELSE [c \in (DOMAIN channel_events) \cup {channel_id} |->
             IF c = channel_id THEN ChannelEventsStorage_default
             ELSE channel_events[c]]

\* ClientStorage::new, without the receiver (the producer side of msg_rx is
\* the variable producer_open).
ClientStorage_new ==
    [channel_events |-> << >>,
     channel_names |-> << >>,
     conn_timestamps |-> None]

\* Mutant of update_conn_timestamps: the bounds of the last batch replace
\* the stored ones.
update_conn_timestamps_overwrite(storage, min_tm, max_tm) ==
    IF IsSome(min_tm) /\ IsSome(max_tm)
    THEN [storage EXCEPT !.conn_timestamps =
            Some([last_sync_tm |-> Unwrap(max_tm),
                  min_tm |-> Unwrap(min_tm),
                  max_tm |-> Unwrap(max_tm)])]
    ELSE storage

\* last_sync is (Instant::now(), last_event_tm); the wall-clock half is not
\* modelled.
update_conn_timestamps(storage, min_tm, max_tm) ==
    IF IsSome(min_tm) /\ IsSome(max_tm)
    THEN LET min == Unwrap(min_tm)
             max == Unwrap(max_tm)
         IN IF IsSome(storage.conn_timestamps)
            THEN [storage EXCEPT !.conn_timestamps =
                    Some([last_sync_tm |-> max,
                          min_tm |-> Min(Unwrap(@).min_tm, min),
                          max_tm |-> Max(Unwrap(@).max_tm, max)])]
            ELSE [storage EXCEPT !.conn_timestamps =
                    Some([last_sync_tm |-> max, min_tm |-> min, max_tm |-> max])]
    ELSE storage

\* The end_name_id handed to insert_range_event: ExternalEvents drops one
\* equal to name_id, Events passes it on.
stored_end_name_id(external, name_id, end_name_id) ==
    IF external /\ IsSome(end_name_id) /\ Unwrap(end_name_id) = name_id
    THEN None
    ELSE end_name_id

\* The for loop over the events of one batch; acc is
\* [cs, min_tm, max_tm]: the channel's storage and the two Option<u64>.
RECURSIVE ingest_loop(_, _, _, _)
ingest_loop(acc, events, i, external) ==
    IF i > Len(events) THEN acc
    ELSE
    LET event == events[i]
        next ==
          IF event.kind = "Instant"
          THEN [cs |-> insert_instant_event(acc.cs, event.tm, event.name_id),
                min_tm |-> Some(IF IsSome(acc.min_tm)
                                THEN Min(Unwrap(acc.min_tm), event.tm)
                                ELSE event.tm),
                max_tm |-> Some(IF IsSome(acc.max_tm)
                                THEN Max(Unwrap(acc.max_tm), event.tm)
                                ELSE event.tm)]
          ELSE [cs |-> insert_range_event(acc.cs, event.start, event.end,
                          event.name_id,
                          stored_end_name_id(external, event.name_id,
                                             event.end_name_id),
                          IF external THEN None ELSE event.start_thread_ord_id),
                min_tm |-> Some(IF IsSome(acc.min_tm)
                                THEN Min(Min(Unwrap(acc.min_tm), event.start),
                                         event.end)
                                ELSE event.start),
                max_tm |-> Some(IF IsSome(acc.max_tm)
                                THEN Max(Max(Unwrap(acc.max_tm), event.start),
                                         event.end)
                                ELSE event.end)]
    IN ingest_loop(next, events, i + 1, external)

\* The Events arm (channel Thread(thread_ord_id)) and the ExternalEvents arm
\* (channel External(ext_ord_id)).
ingest_events(storage, channel_id, events, external) ==
    LET ce == entry_or_default(storage.channel_events, channel_id)
        done == ingest_loop([cs |-> ce[channel_id], min_tm |-> None,
                             max_tm |-> None], events, 1, external)
    IN update_conn_timestamps(
          [storage EXCEPT !.channel_events =
              [ce EXCEPT ![channel_id] = done.cs]],
          done.min_tm, done.max_tm)

\* The arm of run for one message of the producer reader.
handle_producer_message(storage, msg) ==
    IF msg.type = "Events"
    THEN ingest_events(storage, Thread(msg.thread_ord_id), msg.events, FALSE)
    ELSE IF msg.type = "ExternalEvents"
    THEN ingest_events(storage, External(msg.ext_ord_id), msg.events, TRUE)
    ELSE IF msg.type = "UpdateChannelName"
    THEN [storage EXCEPT !.channel_names =
            [c \in (DOMAIN @) \cup {msg.channel_id} |->
                IF c = msg.channel_id THEN msg.thread_name ELSE @[c]]]
    ELSE \* UpdateChannelEventNames
         LET ce == entry_or_default(storage.channel_events, msg.channel_id)
         IN [storage EXCEPT !.channel_events =
               [ce EXCEPT ![msg.channel_id].event_names = msg.event_names]]

(***************************************************************************)
(* State.                                                                  *)
(***************************************************************************)
VARIABLES
    \* a ChannelEventsStorage driven directly through its methods
    t_cs,
    t_instants,    \* history: the instants passed to insert_instant_event
    t_ranges,      \* history: the ranges passed to insert_range_event
    t_registry,    \* history: the handles the registry under test gave out
    t_skipper,     \* an EventSkipper driven directly, and its decisions
    \* shared.rs SparklesWebsocketSharedInner
    sparkles_connections,        \* id -> addr (with the actor's sender)
    ws_connections,              \* ids of the registered sessions
    disconnected_connections,
    new_sparkles_connection_id,
    new_ws_connection_id,
    control_msgs,                \* control_msg_tx -> control_msg_rx
    \* web_server.rs SharedData
    active_connections,
    \* one producer actor per connection id (sparkles_connection.rs run)
    mailbox,                     \* conn.receiver: messages of the sessions
    storage,                     \* the ClientStorage it owns
    producer_open,               \* the reader thread still holds msg_rx's sender
    active_sending_requests,     \* key -> ActiveRangeRequest
    \* one session per ws id (ws_connection.rs handle_socket)
    session,                     \* its locals and where it is suspended
    events_channel,              \* ws id -> what event_data_rx_channel receives from
    socket,                      \* ws id -> the messages sent to the browser
    \* history
    ingested,                    \* conn id -> every timestamp ingested
    dispatched,                  \* ws id -> the channels of the dispatch that
                                 \* answered its outstanding request, if any
    disconnect_sent,             \* the ids whose actor the manager sent a
                                 \* Disconnect
    budget                       \* inputs taken so far, by kind

test_vars == << t_cs, t_instants, t_ranges, t_registry, t_skipper >>
registry_vars == << sparkles_connections, ws_connections,
                    disconnected_connections, new_sparkles_connection_id,
                    new_ws_connection_id >>
manager_vars == << control_msgs, active_connections, disconnect_sent >>
actor_vars == << mailbox, storage, producer_open, active_sending_requests,
                 ingested, dispatched >>
session_vars == << session, events_channel, socket >>
system_vars == << registry_vars, manager_vars, actor_vars, session_vars, budget >>
vars == << test_vars, system_vars >>

\* SparklesWebsocketSharedInner::new, SharedData::default; no actor and no
\* session exists yet.
Init ==
    /\ t_cs = ChannelEventsStorage_default
    /\ t_instants = << >>
    /\ t_ranges = << >>
    /\ t_registry = [ws_ids |-> << >>, ws_live |-> {},
                     conn_ids |-> << >>, conn_live |-> {},
                     panicked |-> FALSE]
    /\ t_skipper = [sk |-> None, total_events |-> 0, log |-> << >>]
    /\ sparkles_connections = << >>
    /\ ws_connections = {}
    /\ disconnected_connections = {}
    /\ new_sparkles_connection_id = 0
    /\ new_ws_connection_id = 0
    /\ control_msgs = << >>
    /\ active_connections = {}
    /\ mailbox = << >>
    /\ storage = << >>
    /\ producer_open = << >>
    /\ active_sending_requests = << >>
    /\ session = << >>
    /\ events_channel = << >>
    /\ socket = << >>
    /\ ingested = << >>
    /\ dispatched = [ws \in 0..(MaxWs - 1) |-> None]
    /\ disconnect_sent = {}
    /\ budget = [requests |-> 0, batches |-> 0, ticks |-> 0, connects |-> 0,
                 query_ticks |-> 0, disconnects |-> 0]

(***************************************************************************)
(* The storage driven through its public methods.                          *)
(***************************************************************************)
InsertInstant(tm, name_id) ==
    /\ Len(t_instants) < MaxInstants
    /\ t_cs' = insert_instant_event(t_cs, tm, name_id)
    /\ t_instants' = Append(t_instants, StoredInstantEvent(tm, name_id))
    /\ UNCHANGED << t_ranges, t_registry, t_skipper, system_vars >>

InsertRange(start, end, name_id, end_name_id, start_thread_id) ==
    /\ Len(t_ranges) < MaxRanges
    /\ t_cs' = insert_range_event(t_cs, start, end, name_id, end_name_id,
                                  start_thread_id)
    /\ t_ranges' = Append(t_ranges,
          [start |-> start, end |-> end, name_id |-> name_id,
           end_name_id |-> end_name_id, extra |-> start_thread_id])
    /\ UNCHANGED << t_instants, t_registry, t_skipper, system_vars >>

NextInstants == \E tm \in Times, name_id \in NameIds : InsertInstant(tm, name_id)

NextRanges ==
    \E start \in RangeTimes, end \in RangeTimes, name_id \in RangeNameIds,
       thr \in {None} \cup {Some(t) : t \in OriginThreads} :
        /\ start <= end
        /\ InsertRange(start, end, name_id, None, thr)

SpecInstants == Init /\ [][NextInstants]_vars
SpecRanges == Init /\ [][NextRanges]_vars

\* Instants and ranges with and without an end name, for the frame bytes.
NextFrames ==
    \/ \E tm \in Times, name_id \in NameIds :
          /\ Len(t_instants) < MaxFrameInstants
          /\ InsertInstant(tm, name_id)
    \/ \E start \in RangeTimes, end \in RangeTimes, name_id \in RangeNameIds,
          end_name_id \in {None} \cup {Some(n) : n \in EndNameIds},
          thr \in {None} \cup {Some(t) : t \in OriginThreads} :
          /\ start <= end
          /\ Len(t_ranges) < MaxFrameRanges
          /\ InsertRange(start, end, name_id, end_name_id, thr)

SpecFrames == Init /\ [][NextFrames]_vars

\* Instants next to enough ranges to fill every lane.
NextLanes ==
    \/ \E tm \in Times, name_id \in NameIds :
          /\ Len(t_instants) < MaxLaneInstants
          /\ InsertInstant(tm, name_id)
    \/ \E start \in RangeTimes, end \in RangeTimes, name_id \in RangeNameIds,
          thr \in {None} \cup {Some(t) : t \in OriginThreads} :
          /\ start <= end
          /\ Len(t_ranges) < MaxLaneRanges
          /\ InsertRange(start, end, name_id, None, thr)

SpecLanes == Init /\ [][NextLanes]_vars

(***************************************************************************)
(* An EventSkipper driven through its public methods.  The log holds, for  *)
(* each call, whether its arguments were below skip_thr and what it        *)
(* returned.                                                               *)
(***************************************************************************)
SkipperUnchanged == UNCHANGED << t_cs, t_instants, t_ranges, t_registry,
                                 system_vars >>

SkipperNew(skip_thr, total_events) ==
    /\ t_skipper.sk = None
    /\ t_skipper' = [sk |-> Some(EventSkipper_new(skip_thr, MAX_EV_CNT,
                                                  total_events)),
                     total_events |-> total_events,
                     log |-> << >>]
    /\ SkipperUnchanged

SkipperKeepInstant(tm_diff) ==
    /\ IsSome(t_skipper.sk)
    /\ Len(t_skipper.log) < MaxDecisions
    /\ LET sk == Unwrap(t_skipper.sk)
           dec == should_keep_instant(sk, tm_diff)
       IN t_skipper' = [t_skipper EXCEPT
             !.sk = Some(dec[2]),
             !.log = Append(@, [close |-> tm_diff < sk.skip_thr,
                                keep |-> dec[1]])]
    /\ SkipperUnchanged

SkipperKeepRange(start_distance, duration) ==
    /\ IsSome(t_skipper.sk)
    /\ Len(t_skipper.log) < MaxDecisions
    /\ LET sk == Unwrap(t_skipper.sk)
           dec == should_keep_range(sk, start_distance, duration)
       IN t_skipper' = [t_skipper EXCEPT
             !.sk = Some(dec[2]),
             !.log = Append(@, [close |-> /\ start_distance < sk.skip_thr
                                          /\ duration < sk.skip_thr,
                                keep |-> dec[1]])]
    /\ SkipperUnchanged

NextSkipper ==
    \/ \E skip_thr \in SkipThresholds, total_events \in TotalEvents :
          SkipperNew(skip_thr, total_events)
    \/ \E tm_diff \in Distances : SkipperKeepInstant(tm_diff)
    \/ \E start_distance \in Distances, duration \in Distances :
          SkipperKeepRange(start_distance, duration)

SpecSkipper == Init /\ [][NextSkipper]_vars

(***************************************************************************)
(* Helpers of the actions.                                                 *)
(***************************************************************************)
Extend(f, k, v) == [x \in (DOMAIN f) \cup {k} |-> IF x = k THEN v ELSE f[x]]
Without(f, k) == [x \in (DOMAIN f) \ {k} |-> f[x]]

\* Every order in which a HashMap may iterate the keys S.
Orders(S) ==
    {o \in [1..Cardinality(S) -> S] : \A i, j \in DOMAIN o : o[i] = o[j] => i = j}


\* Mutant of DummyChannel: the placeholder's sender is not kept.
DummyChannel_sender_dropped ==
    [dummy |-> TRUE, buf |-> << >>, tx_alive |-> FALSE, rx_alive |-> TRUE]

\* The placeholder channel of an idle session: the session itself holds the
\* sender (dummy_tx), nothing is ever sent.
DummyChannel == [dummy |-> TRUE, buf |-> << >>, tx_alive |-> TRUE,
                 rx_alive |-> TRUE]
\* tokio::sync::mpsc::channel(..) made by request_new_events.
ReplyChannel == [dummy |-> FALSE, buf |-> << >>, tx_alive |-> TRUE,
                 rx_alive |-> TRUE]

\* Mutant of try_reserve_many: the capacity is not looked at.
try_reserve_many_unbounded(ch, n) == ch.rx_alive

\* Sender::try_reserve_many(n): fails when the receiver is gone or fewer
\* than n of the capacity's permits are free.
try_reserve_many(ch, n) ==
    /\ ch.rx_alive
    /\ n <= EVENTS_CHANNEL_CAP - Len(ch.buf)

\* The sender of a reply channel is dropped.
drop_sender(ec, ws) == [ec EXCEPT ![ws].tx_alive = FALSE]

(***************************************************************************)
(* sparkles_connection.rs run: the query arm and the dispatch that ends     *)
(* every turn of the loop.                                                 *)
(***************************************************************************)
\* The RequestNewRange arm: insert under the key received with the message;
\* an entry already under that key is dropped with its sender.  Gives
\* << active_sending_requests, events_channel >> of the actor after it.
handle_request_new_range(asr, ec, ws_id, msg) ==
    << Extend(asr, ws_id, [resp |-> msg.events_channel,
                           start |-> msg.start, end |-> msg.end]),
       IF ws_id \in DOMAIN asr THEN drop_sender(ec, asr[ws_id].resp) ELSE ec >>

\* Mutant of store_at_iteration: after the first iteration the channels
\* have been replaced by empty ones.
store_at_iteration_moving(st, i) ==
    IF i = 1 THEN st
    ELSE [st EXCEPT !.channel_events =
            [ch \in DOMAIN @ |-> ChannelEventsStorage_default]]

\* The store the i-th iteration of the loop over storage.channel_events
\* reads: the loop borrows the store and holds no await, so it is the store
\* the arm of this turn left.
store_at_iteration(st, i) == st

\* Mutant of frames_for: the last channel of the iteration gets no tuple.
frames_for_all_but_last(st, o, start, end) ==
    [i \in 1..(Len(o) - 1) |->
        LET f == channel_frame(st.channel_events[o[i]], start, end)
        IN [channel_id |-> o[i],
            data |-> [instants |-> f.instants, range_buf |-> f.range_buf,
                      foreign_range_buf |-> f.foreign_range_buf],
            stats |-> f.stats]]

\* The tuples sent for one request, channels in the order o.
frames_for(st, o, start, end) ==
    [i \in DOMAIN o |->
        LET f == channel_frame(store_at_iteration(st, i).channel_events[o[i]],
                               start, end)
        IN [channel_id |-> o[i],
            data |-> [instants |-> f.instants, range_buf |-> f.range_buf,
                      foreign_range_buf |-> f.foreign_range_buf],
            stats |-> f.stats]]

\* "process one request": asr, ec and st are the actor's pending requests,
\* the reply channels and the store as the arm before it left them.
ProcessOneRequest(c, asr, ec, st) ==
    IF DOMAIN asr = {}
    THEN /\ active_sending_requests' = [active_sending_requests EXCEPT ![c] = asr]
         /\ events_channel' = ec
         /\ UNCHANGED dispatched
    ELSE \E k \in DOMAIN asr :
           LET req == asr[k]
               len_requests == Cardinality(DOMAIN st.channel_events)
           IN IF ~try_reserve_many(ec[req.resp], len_requests)
              THEN \* pushed back under the same key
                   /\ active_sending_requests' =
                         [active_sending_requests EXCEPT ![c] = asr]
                   /\ events_channel' = ec
                   /\ UNCHANGED dispatched
              ELSE \E o \in Orders(DOMAIN st.channel_events) :
                   /\ active_sending_requests' =
                         [active_sending_requests EXCEPT ![c] = Without(asr, k)]
                   /\ events_channel' =
                         drop_sender(
                            [ec EXCEPT ![req.resp].buf =
                                @ \o frames_for(st, o, req.start, req.end)],
                            req.resp)
                   /\ dispatched' = [dispatched EXCEPT ![req.resp] = Some(o)]

\* ClientStorage::get_storage_stats: the sums over the channels in S.
RECURSIVE sum_storage_stats(_, _)
sum_storage_stats(channel_events, S) ==
    IF S = {} THEN [instant_events |-> 0, range_events |-> 0]
    ELSE LET ch == CHOOSE x \in S : TRUE
             rest == sum_storage_stats(channel_events, S \ {ch})
         IN [instant_events |->
                rest.instant_events + Len(channel_events[ch].instant_events),
             range_events |->
                rest.range_events
                + RangeEventStorage_len(channel_events[ch].range_events)
                + RangeEventStorage_len(
                     channel_events[ch].cross_thread_range_events)]

get_storage_stats(st) ==
    sum_storage_stats(st.channel_events, DOMAIN st.channel_events)

\* Mutant of handle_query: every arm takes conn_timestamps out of the store.
handle_query_takes_timestamps(st, msg, elapsed_ns) ==
    [storage |-> [st EXCEPT !.conn_timestamps = None],
     reply |-> Some(st.conn_timestamps)]

\* The arms of the queries that answer through a oneshot sender: the store
\* after the arm and what was sent on resp (None: resp dropped unsent).
handle_query(st, msg, elapsed_ns) ==
    IF msg.type = "GetEventNames"
    THEN [storage |-> st,
          reply |-> IF msg.channel_id \in DOMAIN st.channel_events
                    THEN Some(st.channel_events[msg.channel_id].event_names)
                    ELSE None]
    ELSE IF msg.type = "GetChannelNames"
    THEN [storage |-> st, reply |-> Some(st.channel_names)]
    ELSE IF msg.type = "SetChannelName"
    THEN [storage |->
             [st EXCEPT !.channel_names =
                 [c \in (DOMAIN @) \cup {msg.channel_id} |->
                     IF c = msg.channel_id THEN msg.name ELSE @[c]]],
          reply |-> Some("unit")]
    ELSE IF msg.type = "GetConnectionTimestamps"
    THEN [storage |-> st,
          reply |-> Some(IF IsSome(st.conn_timestamps)
                         THEN LET conn_ts == Unwrap(st.conn_timestamps)
                              IN Some(<< conn_ts.min_tm, conn_ts.max_tm,
                                         conn_ts.last_sync_tm + elapsed_ns >>)
                         ELSE None)]
    ELSE \* GetStorageStats
         [storage |-> st, reply |-> Some(get_storage_stats(st))]

\* resp.send(v) of a oneshot whose receiver the session ws awaits; the
\* result of the send is ignored, a dropped resp wakes the receiver with Err.
oneshot_answer(sessions, ws, reply) ==
    IF ws \in DOMAIN sessions /\ sessions[ws].pc = "awaiting_query"
    THEN [sessions EXCEPT ![ws].query_resp = Some(reply)]
    ELSE sessions

\* The Disconnect arm: the connection is marked disconnected and the
\* producer's inbound channel is replaced by an idle one; the loop goes on.
handle_disconnect(c) ==
    /\ disconnected_connections' = disconnected_connections \cup {c}
    /\ producer_open' = [producer_open EXCEPT ![c] = FALSE]

\* conn.recv_message() delivers the head of the mailbox.
ActorRecvWs(c) ==
    /\ c \in DOMAIN mailbox
    /\ mailbox[c] # << >>
    /\ LET ws_id == Head(mailbox[c])[1]
           msg == Head(mailbox[c])[2]
       IN IF msg.type = "RequestNewRange"
          THEN LET after == handle_request_new_range(
                               active_sending_requests[c], events_channel,
                               ws_id, msg)
               IN /\ ProcessOneRequest(c, after[1], after[2], storage[c])
                  /\ UNCHANGED << storage, session, producer_open,
                                  disconnected_connections >>
          ELSE IF msg.type = "Disconnect"
          THEN /\ handle_disconnect(c)
               /\ ProcessOneRequest(c, active_sending_requests[c],
                                    events_channel, storage[c])
               /\ UNCHANGED << storage, session >>
          ELSE \E elapsed_ns \in ElapsedNs :
               LET res == handle_query(storage[c], msg, elapsed_ns)
               IN /\ storage' = [storage EXCEPT ![c] = res.storage]
                  /\ session' = oneshot_answer(session, msg.resp, res.reply)
                  /\ ProcessOneRequest(c, active_sending_requests[c],
                                       events_channel, res.storage)
                  /\ UNCHANGED << producer_open, disconnected_connections >>
    /\ mailbox' = [mailbox EXCEPT ![c] = Tail(@)]
    /\ UNCHANGED << test_vars, sparkles_connections, ws_connections,
                    new_sparkles_connection_id, new_ws_connection_id,
                    manager_vars, ingested, socket, budget >>

\* The timestamps a batch brings in.
batch_timestamps(msg) ==
    IF msg.type \in {"Events", "ExternalEvents"}
    THEN UNION {IF msg.events[i].kind = "Instant"
                THEN {msg.events[i].tm}
                ELSE {msg.events[i].start, msg.events[i].end}
                : i \in DOMAIN msg.events}
    ELSE {}

\* storage.msg_rx.recv() delivers a message of the reader thread.
ActorRecvProducer(c, msg) ==
    /\ c \in DOMAIN storage
    /\ producer_open[c]
    /\ budget.batches < MaxBatches
    /\ budget' = [budget EXCEPT !.batches = @ + 1]
    /\ storage' = [storage EXCEPT ![c] = handle_producer_message(@, msg)]
    /\ ingested' = [ingested EXCEPT ![c] = @ \cup batch_timestamps(msg)]
    /\ ProcessOneRequest(c, active_sending_requests[c], events_channel,
                         storage'[c])
    /\ UNCHANGED << test_vars, registry_vars, manager_vars, mailbox,
                    producer_open, session, socket >>

\* Mutant of ActorProducerClosed: the close arm starts a fresh store.
ActorProducerClosed_store_reset(c) ==
    /\ c \in DOMAIN storage
    /\ producer_open[c]
    /\ producer_open' = [producer_open EXCEPT ![c] = FALSE]
    /\ disconnected_connections' = disconnected_connections \cup {c}
    /\ storage' = [storage EXCEPT ![c] = ClientStorage_new]
    /\ ProcessOneRequest(c, active_sending_requests[c], events_channel,
                         storage'[c])
    /\ UNCHANGED << test_vars, sparkles_connections, ws_connections,
                    new_sparkles_connection_id, new_ws_connection_id,
                    manager_vars, mailbox, ingested, session, socket,
                    budget >>

\* storage.msg_rx.recv() gives None: the reader thread is gone.
ActorProducerClosed(c) ==
    /\ c \in DOMAIN storage
    /\ producer_open[c]
    /\ producer_open' = [producer_open EXCEPT ![c] = FALSE]
    /\ disconnected_connections' = disconnected_connections \cup {c}
    /\ ProcessOneRequest(c, active_sending_requests[c], events_channel,
                         storage[c])
    /\ UNCHANGED << test_vars, sparkles_connections, ws_connections,
                    new_sparkles_connection_id, new_ws_connection_id,
                    manager_vars, mailbox, storage, ingested, session, socket,
                    budget >>

(***************************************************************************)
(* shared.rs: the registry driven directly through new_ws_connection,      *)
(* new_sparkles_connection and the drops of the handles they return.       *)
(* t_registry holds the ids returned, in order, and which of the handles   *)
(* (by position) are still alive.                                          *)
(***************************************************************************)
RegistryUnchanged ==
    UNCHANGED << t_cs, t_instants, t_ranges, t_skipper,
                 disconnected_connections,
                 manager_vars, actor_vars, session_vars, budget >>

new_ws_connection ==
    /\ Len(t_registry.ws_ids) < MaxRegistryCalls
    /\ \/ /\ overflows_u32(new_ws_connection_id)
          /\ ~t_registry.panicked
          /\ t_registry' = [t_registry EXCEPT !.panicked = TRUE]
          /\ UNCHANGED << ws_connections, new_ws_connection_id >>
       \/ LET id == new_ws_connection_id
          IN /\ new_ws_connection_id' = add_one_u32(id)
             /\ ws_connections' = ws_connections \cup {id}
             /\ t_registry' = [t_registry EXCEPT
                   !.ws_ids = Append(@, id),
                   !.ws_live = @ \cup {Len(t_registry.ws_ids) + 1}]
    /\ UNCHANGED << sparkles_connections, new_sparkles_connection_id >>
    /\ RegistryUnchanged

\* Drop for WsConnection, of the handle returned by the h-th call.
drop_WsConnection(h) ==
    /\ h \in t_registry.ws_live
    /\ ws_connections' = ws_connections \ {t_registry.ws_ids[h]}
    /\ t_registry' = [t_registry EXCEPT !.ws_live = @ \ {h}]
    /\ UNCHANGED << sparkles_connections, new_sparkles_connection_id,
                    new_ws_connection_id >>
    /\ RegistryUnchanged

new_sparkles_connection(addr) ==
    /\ Len(t_registry.conn_ids) < MaxRegistryCalls
    /\ \/ /\ overflows_u32(new_sparkles_connection_id)
          /\ ~t_registry.panicked
          /\ t_registry' = [t_registry EXCEPT !.panicked = TRUE]
          /\ UNCHANGED << sparkles_connections, new_sparkles_connection_id >>
       \/ LET id == new_sparkles_connection_id
          IN /\ new_sparkles_connection_id' = add_one_u32(id)
             /\ sparkles_connections' = Extend(sparkles_connections, id, addr)
             /\ t_registry' = [t_registry EXCEPT
                   !.conn_ids = Append(@, id),
                   !.conn_live = @ \cup {Len(t_registry.conn_ids) + 1}]
    /\ UNCHANGED << ws_connections, new_ws_connection_id >>
    /\ RegistryUnchanged

\* Drop for SparklesConnection, of the handle returned by the h-th call.
drop_SparklesConnection(h) ==
    /\ h \in t_registry.conn_live
    /\ sparkles_connections' = Without(sparkles_connections, t_registry.conn_ids[h])
    /\ t_registry' = [t_registry EXCEPT !.conn_live = @ \ {h}]
    /\ UNCHANGED << ws_connections, new_sparkles_connection_id,
                    new_ws_connection_id >>
    /\ RegistryUnchanged

NextRegistry ==
    \/ new_ws_connection
    \/ \E h \in 1..MaxRegistryCalls : drop_WsConnection(h)
    \/ new_sparkles_connection("a1")
    \/ \E h \in 1..MaxRegistryCalls : drop_SparklesConnection(h)

SpecRegistry == Init /\ [][NextRegistry]_vars

(***************************************************************************)
(* sparkles_connection_manager.rs run                                      *)
(***************************************************************************)
\* Mutant of group_already_connected: the group check finds nothing.
group_already_connected_never(groups, i, addr) == FALSE

\* The group check of a Udp address: the first discovered group holding the
\* address decides.
RECURSIVE group_already_connected(_, _, _)
group_already_connected(groups, i, addr) ==
    IF i > Len(groups) THEN FALSE
    ELSE IF addr \in groups[i]
         THEN \E group_addr \in groups[i] : group_addr \in active_connections
         ELSE group_already_connected(groups, i + 1, addr)

\* Mutant of already_connected: the exact-address check finds nothing.
already_connected_never(addr) == FALSE

\* The exact-address check of Connect.
already_connected(addr) == addr \in active_connections

\* Mutant of insert_active: the address is not recorded.
insert_active_dropped(active, addr) == active

\* guard.active_connections.insert(addr.clone()), under the lock taken
\* before the two checks.
insert_active(active, addr) == active \cup {addr}

ManagerConnect ==
    /\ control_msgs # << >>
    /\ Head(control_msgs).type = "Connect"
    /\ control_msgs' = Tail(control_msgs)
    /\ LET addr == Head(control_msgs).addr
           ws == Head(control_msgs).resp
           id == new_sparkles_connection_id
       IN IF already_connected(addr)
          THEN /\ session' = [session EXCEPT ![ws].connect_resp =
                                 Some([ok |-> FALSE, msg |-> "Already connected"])]
               /\ UNCHANGED << registry_vars, active_connections, actor_vars >>
          ELSE IF group_already_connected(DiscoveredClients, 1, addr)
          THEN /\ session' = [session EXCEPT ![ws].connect_resp =
                                 Some([ok |-> FALSE,
                                       msg |-> "Already connected to this client"])]
               /\ UNCHANGED << registry_vars, active_connections, actor_vars >>
          ELSE /\ active_connections' = insert_active(active_connections, addr)
               \* new_sparkles_connection
               /\ new_sparkles_connection_id' = add_one_u32(id)
               /\ sparkles_connections' = Extend(sparkles_connections, id, addr)
               /\ session' = [session EXCEPT ![ws].connect_resp =
                                 Some([ok |-> TRUE, id |-> id])]
               \* spawn_conn_handler
               /\ mailbox' = Extend(mailbox, id, << >>)
               /\ storage' = Extend(storage, id, ClientStorage_new)
               /\ producer_open' = Extend(producer_open, id, TRUE)
               /\ active_sending_requests' =
                     Extend(active_sending_requests, id, << >>)
               /\ ingested' = Extend(ingested, id, {})
               /\ UNCHANGED << ws_connections, disconnected_connections,
                               new_ws_connection_id, dispatched >>
    /\ UNCHANGED << test_vars, events_channel, socket, budget,
                    disconnect_sent >>

\* SparklesWebsocketShared::sparkles_connection_addr
sparkles_connection_addr(id) ==
    IF id \in DOMAIN sparkles_connections THEN Some(sparkles_connections[id])
    ELSE None

\* SparklesWebsocketShared::send_to_sparkles_connection: the mailboxes after
\* the send (unchanged when the id is not registered).
send_to_sparkles_connection(id, msg) ==
    IF id \in DOMAIN mailbox
    THEN [mailbox EXCEPT ![id] = Append(@, << id, msg >>)]
    ELSE mailbox

\* Mutant of ManagerDisconnect: the address stays in active_connections.
ManagerDisconnect_keeps_active ==
    /\ control_msgs # << >>
    /\ Head(control_msgs).type = "Disconnect"
    /\ control_msgs' = Tail(control_msgs)
    /\ mailbox' = send_to_sparkles_connection(Head(control_msgs).id,
                                              [type |-> "Disconnect"])
    /\ disconnect_sent' = disconnect_sent
                             \cup ({Head(control_msgs).id}
                                      \cap DOMAIN sparkles_connections)
    /\ UNCHANGED << test_vars, registry_vars, active_connections, storage,
                    producer_open, active_sending_requests, ingested,
                    dispatched, session_vars, budget >>

\* WsControlMessage::Disconnect
ManagerDisconnect ==
    /\ control_msgs # << >>
    /\ Head(control_msgs).type = "Disconnect"
    /\ control_msgs' = Tail(control_msgs)
    /\ LET id == Head(control_msgs).id
       IN IF IsSome(sparkles_connection_addr(id))
          THEN /\ active_connections' =
                     active_connections \ {Unwrap(sparkles_connection_addr(id))}
               /\ mailbox' = send_to_sparkles_connection(id,
                                 [type |-> "Disconnect"])
               /\ disconnect_sent' = disconnect_sent \cup {id}
          ELSE UNCHANGED << active_connections, mailbox, disconnect_sent >>
    /\ UNCHANGED << test_vars, registry_vars, storage, producer_open,
                    active_sending_requests, ingested, dispatched,
                    session_vars, budget >>

(***************************************************************************)
(* web_server.rs on_upgrade and ws_connection.rs handle_socket             *)
(***************************************************************************)
\* new_ws_connection and the locals of handle_socket before its loop.
NewWsConnection ==
    /\ new_ws_connection_id < MaxWs
    /\ LET id == new_ws_connection_id
       IN /\ new_ws_connection_id' = add_one_u32(id)
          /\ ws_connections' = ws_connections \cup {id}
          /\ session' = Extend(session, id,
                [pc |-> "select",
                 last_msg_id |-> 0,
                 is_channel_registered |-> FALSE,
                 current_sparkles_id |-> 0,
                 connect_resp |-> None,
                 tick |-> None,       \* the ticker arm suspended at an await
                 query_resp |-> None, \* the oneshot receiver it awaits
                 requests |-> 0,      \* history: RequestNewRange commands received
                 accepted |-> 0])     \* history: those that registered a channel
          /\ events_channel' = Extend(events_channel, id, DummyChannel)
          /\ socket' = Extend(socket, id, << >>)
    /\ UNCHANGED << test_vars, sparkles_connections, disconnected_connections,
                    new_sparkles_connection_id, manager_vars, actor_vars,
                    budget >>

Selecting(ws) == ws \in DOMAIN session /\ session[ws].pc = "select"

\* Mutant of already_waiting: the session never counts as waiting.
already_waiting_never(sess) == FALSE

\* The test of the RequestNewRange arm.
already_waiting(sess) == sess.is_channel_registered

\* Mutant of events_messages: the trailer carries the incremented counter.
events_messages_trailer_after_increment(sess, item) ==
    << [type |-> "NewEventsHeader",
        id |-> sess.current_sparkles_id,
        channel_id |-> item.channel_id,
        msg_id |-> sess.last_msg_id,
        stats |-> item.stats],
       [type |-> "Binary",
        data |-> item.data,
        trailer |-> to_le_bytes_u32(sess.last_msg_id + 1)] >>

\* The two messages sent for one received tuple: the header, then the bytes
\* with msg_id appended (sess is the session before last_msg_id += 1).
events_messages(sess, item) ==
    << [type |-> "NewEventsHeader",
        id |-> sess.current_sparkles_id,
        channel_id |-> item.channel_id,
        msg_id |-> sess.last_msg_id,
        stats |-> item.stats],
       [type |-> "Binary",
        data |-> item.data,
        trailer |-> to_le_bytes_u32(sess.last_msg_id)] >>

\* handle_socket returns: the WsConnection and the receiver are dropped.
session_ends(ws) ==
    /\ ws_connections' = ws_connections \ {ws}
    /\ events_channel' = [events_channel EXCEPT ![ws].rx_alive = FALSE]

\* MessageToServer::Connect: the control message is sent and the session
\* waits for the manager's answer.
WsConnect(ws, addr) ==
    /\ Selecting(ws)
    /\ budget.connects < MaxConnects
    /\ budget' = [budget EXCEPT !.connects = @ + 1]
    /\ control_msgs' = Append(control_msgs,
                              [type |-> "Connect", addr |-> addr, resp |-> ws])
    /\ session' = [session EXCEPT ![ws].pc = "awaiting_connect"]
    /\ UNCHANGED << test_vars, registry_vars, active_connections,
                    disconnect_sent, actor_vars, events_channel, socket >>

\* The answer arrived: Connected or ConnectError goes to the browser.
WsConnectReply(ws) ==
    /\ ws \in DOMAIN session
    /\ session[ws].pc = "awaiting_connect"
    /\ IsSome(session[ws].connect_resp)
    /\ LET r == Unwrap(session[ws].connect_resp)
       IN socket' = [socket EXCEPT ![ws] = Append(@,
             IF r.ok THEN [type |-> "Connected", id |-> r.id]
             ELSE [type |-> "ConnectError", msg |-> r.msg])]
    /\ session' = [session EXCEPT ![ws].pc = "select",
                                  ![ws].connect_resp = None]
    /\ UNCHANGED << test_vars, registry_vars, manager_vars, actor_vars,
                    events_channel, budget >>

\* MessageToServer::Disconnect: conn.disconnect(conn_id) hands the control
\* message to the manager; nothing is awaited.
WsDisconnect(ws, conn_id) ==
    /\ Selecting(ws)
    /\ budget.disconnects < MaxDisconnects
    /\ budget' = [budget EXCEPT !.disconnects = @ + 1]
    /\ control_msgs' = Append(control_msgs,
                              [type |-> "Disconnect", id |-> conn_id])
    /\ UNCHANGED << test_vars, registry_vars, active_connections,
                    disconnect_sent, actor_vars, session_vars >>

\* MessageToServer::RequestNewRange
WsRequestNewRange(ws, conn_id, start, end) ==
    /\ Selecting(ws)
    /\ budget.requests < MaxRequests
    /\ budget' = [budget EXCEPT !.requests = @ + 1]
    /\ IF already_waiting(session[ws])
       THEN /\ socket' = [socket EXCEPT ![ws] = Append(@,
                  [type |-> "ConnectError", msg |-> "Already waiting for a range"])]
            /\ session' = [session EXCEPT ![ws].requests = @ + 1]
            /\ UNCHANGED << events_channel, mailbox, ws_connections, dispatched >>
       ELSE IF conn_id \notin DOMAIN sparkles_connections
       THEN \* send_message fails and the error leaves handle_socket
            /\ session' = [session EXCEPT ![ws].pc = "closed",
                                          ![ws].requests = @ + 1]
            /\ session_ends(ws)
            /\ UNCHANGED << socket, mailbox, dispatched >>
       ELSE \* request_new_events, then the three assignments
            /\ mailbox' = [mailbox EXCEPT ![conn_id] = Append(@,
                  << conn_id, [type |-> "RequestNewRange", start |-> start,
                               end |-> end, events_channel |-> ws] >>)]
            /\ events_channel' = [events_channel EXCEPT ![ws] = ReplyChannel]
            /\ session' = [session EXCEPT ![ws].is_channel_registered = TRUE,
                                          ![ws].current_sparkles_id = conn_id,
                                          ![ws].requests = @ + 1,
                                          ![ws].accepted = @ + 1]
            /\ dispatched' = [dispatched EXCEPT ![ws] = None]
            /\ UNCHANGED << socket, ws_connections >>
    /\ UNCHANGED << test_vars, sparkles_connections, disconnected_connections,
                    new_sparkles_connection_id, new_ws_connection_id,
                    manager_vars, storage, producer_open,
                    active_sending_requests, ingested >>

\* event_data_rx_channel.recv() gives a tuple: header, then the bytes with
\* the msg_id appended.
\* last_msg_id += 1 comes before the sends: where overflow checks are on, an
\* overflow unwinds handle_socket; where they are off, the counter wraps.
WsRecvEvents(ws) ==
    /\ Selecting(ws)
    /\ events_channel[ws].buf # << >>
    /\ \E overflow_checks \in
            IF overflows_msg_id(session[ws].last_msg_id) THEN BOOLEAN
            ELSE {FALSE} :
          IF overflow_checks
          THEN /\ session' = [session EXCEPT ![ws].pc = "closed"]
               /\ session_ends(ws)
               /\ UNCHANGED socket
          ELSE /\ session' = [session EXCEPT
                     ![ws].last_msg_id = add_one_msg_id(@)]
               /\ socket' = [socket EXCEPT ![ws] =
                     @ \o events_messages(session[ws],
                                          Head(events_channel[ws].buf))]
               /\ events_channel' = [events_channel EXCEPT ![ws].buf = Tail(@)]
               /\ UNCHANGED ws_connections
    /\ UNCHANGED << test_vars, sparkles_connections, disconnected_connections,
                    new_sparkles_connection_id, new_ws_connection_id,
                    manager_vars, actor_vars, budget >>

\* event_data_rx_channel.recv() gives None: empty and every sender dropped.
WsRecvClosed(ws) ==
    /\ Selecting(ws)
    /\ events_channel[ws].buf = << >>
    /\ ~events_channel[ws].tx_alive
    /\ socket' = [socket EXCEPT ![ws] = Append(@,
          [type |-> "EventsFinished", id |-> session[ws].current_sparkles_id])]
    /\ session' = [session EXCEPT ![ws].is_channel_registered = FALSE]
    /\ events_channel' = [events_channel EXCEPT ![ws] = DummyChannel]
    /\ UNCHANGED << test_vars, registry_vars, manager_vars, actor_vars, budget >>

\* discover_list_ticker fires.
WsDiscoverTick(ws) ==
    /\ Selecting(ws)
    /\ budget.ticks < MaxTicks
    /\ budget' = [budget EXCEPT !.ticks = @ + 1]
    /\ socket' = [socket EXCEPT ![ws] = Append(@,
          [type |-> "DiscoveredClients",
           clients |-> [i \in DOMAIN DiscoveredClients |->
               [addresses |-> DiscoveredClients[i],
                connected |-> \E addr \in DiscoveredClients[i] :
                                 addr \in active_connections]]])]
    /\ UNCHANGED << test_vars, registry_vars, manager_vars, actor_vars,
                    session, events_channel >>

\* Mutant of all_sparkles_connections: disconnected_connections is not read.
all_sparkles_connections_always_online(o) ==
    [i \in DOMAIN o |->
        [id |-> o[i], addr |-> sparkles_connections[o[i]], online |-> TRUE]]

\* SparklesWebsocketShared::all_sparkles_connections, the HashMap iterated
\* in the order o.
all_sparkles_connections(o) ==
    [i \in DOMAIN o |->
        [id |-> o[i], addr |-> sparkles_connections[o[i]],
         online |-> o[i] \notin disconnected_connections]]

\* SparklesWebsocketShared::active_sparkles_connections
active_sparkles_connections(o) ==
    [i \in DOMAIN o |-> [id |-> o[i], addr |-> sparkles_connections[o[i]]]]

StorageStats_default == [instant_events |-> 0, range_events |-> 0]

\* The query the suspended ticker arm sends for the head of its list.
tick_query(tk, ws) ==
    [type |-> IF tk.kind = "sync" THEN "GetConnectionTimestamps"
              ELSE IF tk.stage = "stats" THEN "GetStorageStats"
              ELSE "GetChannelNames",
     resp |-> ws]

\* The ticker arm after an await returned r (None: Err, Some(v): Ok(v)):
\* the loop state after it and the messages sent to the browser.
\* channel_names is empty in this model (no UpdateChannelName and no
\* SetChannelId is sent), so the get_event_names loop has no turn.
tick_result(tk, r) ==
    IF tk.kind = "sync"
    THEN [tk |-> [tk EXCEPT !.todo = Tail(@)],
          sent |-> IF IsSome(r) /\ IsSome(Unwrap(r))
                   THEN << [type |-> "ConnectionTimestamps",
                            id |-> Head(tk.todo).id,
                            min |-> Unwrap(Unwrap(r))[1],
                            max |-> Unwrap(Unwrap(r))[2],
                            current |-> Unwrap(Unwrap(r))[3]] >>
                   ELSE << >>]
    ELSE IF tk.stage = "stats"
    THEN [tk |-> [tk EXCEPT !.stage = "names",
                            !.stats = IF IsSome(r) THEN Unwrap(r)
                                      ELSE StorageStats_default],
          sent |-> << >>]
    ELSE [tk |-> [tk EXCEPT !.stage = "stats",
                            !.stats = StorageStats_default,
                            !.todo = Tail(@),
                            !.conns = Append(@,
                               [id |-> Head(tk.todo).id,
                                addr |-> Head(tk.todo).addr,
                                stats |-> tk.stats,
                                channel_names |-> IF IsSome(r) THEN Unwrap(r)
                                                  ELSE << >>,
                                online |-> Head(tk.todo).online])],
          sent |-> << >>]

\* The ticker arm runs until its next await: send_message fails at once for
\* an id that left the registry, and the arm ends when the list is empty.
RECURSIVE tick_advance(_, _)
tick_advance(tk, registry) ==
    IF tk.todo = << >>
    THEN [tk |-> tk, query |-> None,
          sent |-> IF tk.kind = "active"
                   THEN << [type |-> "ActiveConnections", conns |-> tk.conns] >>
                   ELSE << >>]
    ELSE IF Head(tk.todo).id \in registry
    THEN [tk |-> tk, query |-> Some(Head(tk.todo).id), sent |-> << >>]
    ELSE LET r == tick_result(tk, None)
             rest == tick_advance(r.tk, registry)
         IN [rest EXCEPT !.sent = r.sent \o @]

\* The session ws after its ticker arm ran up to a: suspended at the await
\* of a query it sent, or back at select!.
tick_suspend(ws, a, sent) ==
    /\ socket' = [socket EXCEPT ![ws] = @ \o sent \o a.sent]
    /\ IF IsSome(a.query)
       THEN /\ mailbox' = [mailbox EXCEPT ![Unwrap(a.query)] = Append(@,
                  << Unwrap(a.query), tick_query(a.tk, ws) >>)]
            /\ session' = [session EXCEPT ![ws].pc = "awaiting_query",
                                          ![ws].tick = Some(a.tk),
                                          ![ws].query_resp = None]
       ELSE /\ mailbox' = mailbox
            /\ session' = [session EXCEPT ![ws].pc = "select",
                                          ![ws].tick = None,
                                          ![ws].query_resp = None]

\* active_connections_ticker fires.
WsActiveConnectionsTick(ws) ==
    /\ Selecting(ws)
    /\ budget.query_ticks < MaxQueryTicks
    /\ budget' = [budget EXCEPT !.query_ticks = @ + 1]
    /\ \E o \in Orders(DOMAIN sparkles_connections) :
          tick_suspend(ws,
             tick_advance([kind |-> "active",
                           todo |-> all_sparkles_connections(o),
                           stage |-> "stats",
                           stats |-> StorageStats_default,
                           conns |-> << >>],
                          DOMAIN sparkles_connections),
             << >>)
    /\ UNCHANGED << test_vars, registry_vars, manager_vars, storage,
                    producer_open, active_sending_requests, ingested,
                    dispatched, events_channel >>

\* sync_ticker fires.
WsSyncTick(ws) ==
    /\ Selecting(ws)
    /\ budget.query_ticks < MaxQueryTicks
    /\ budget' = [budget EXCEPT !.query_ticks = @ + 1]
    /\ \E o \in Orders(DOMAIN sparkles_connections) :
          tick_suspend(ws,
             tick_advance([kind |-> "sync",
                           todo |-> active_sparkles_connections(o),
                           stage |-> "stats",
                           stats |-> StorageStats_default,
                           conns |-> << >>],
                          DOMAIN sparkles_connections),
             << >>)
    /\ UNCHANGED << test_vars, registry_vars, manager_vars, storage,
                    producer_open, active_sending_requests, ingested,
                    dispatched, events_channel >>

\* The oneshot receiver a ticker arm awaits is woken.
WsQueryReply(ws) ==
    /\ ws \in DOMAIN session
    /\ session[ws].pc = "awaiting_query"
    /\ IsSome(session[ws].query_resp)
    /\ LET r == tick_result(Unwrap(session[ws].tick),
                            Unwrap(session[ws].query_resp))
       IN tick_suspend(ws, tick_advance(r.tk, DOMAIN sparkles_connections),
                       r.sent)
    /\ UNCHANGED << test_vars, registry_vars, manager_vars, storage,
                    producer_open, active_sending_requests, ingested,
                    dispatched, events_channel, budget >>

\* socket.recv() gives None, an error or Close.
WsClientGone(ws) ==
    /\ Selecting(ws)
    /\ session' = [session EXCEPT ![ws].pc = "closed"]
    /\ session_ends(ws)
    /\ UNCHANGED << test_vars, sparkles_connections, disconnected_connections,
                    new_sparkles_connection_id, new_ws_connection_id,
                    manager_vars, actor_vars, socket, budget >>

(***************************************************************************)
(* The messages a producer reader sends.                                   *)
(***************************************************************************)
Instant(tm, name_id) == [kind |-> "Instant", tm |-> tm, name_id |-> name_id]
Range(start, end, name_id, end_name_id, start_thread_ord_id) ==
    [kind |-> "Range", start |-> start, end |-> end, name_id |-> name_id,
     end_name_id |-> end_name_id, start_thread_ord_id |-> start_thread_ord_id]
Events(thread_ord_id, events) ==
    [type |-> "Events", thread_ord_id |-> thread_ord_id, events |-> events]
ExternalEvents(ext_ord_id, events) ==
    [type |-> "ExternalEvents", ext_ord_id |-> ext_ord_id, events |-> events]

\* What the readers send in the whole system.
ProducerMessages ==
    { Events(1, << Range(0, 2, 1, None, None), Instant(1, 1),
                   Range(1, 3, 1, Some(2), Some(7)) >>),
      ExternalEvents(1, << Range(1, 1, 1, Some(1), None), Instant(2, 2) >>) }

Next ==
    \/ NewWsConnection
    \/ \E ws \in DOMAIN session, addr \in Addrs :
          budget.connects < SpecConnects /\ WsConnect(ws, addr)
    \/ ManagerConnect
    \/ \E ws \in DOMAIN session : WsConnectReply(ws)
    \/ \E ws \in DOMAIN session, conn_id \in ConnIdInputs, w \in RequestWindows :
          budget.requests < SpecRequests
             /\ WsRequestNewRange(ws, conn_id, w[1], w[2])
    \/ \E ws \in DOMAIN session : WsRecvEvents(ws)
    \/ \E ws \in DOMAIN session : WsRecvClosed(ws)
    \/ \E ws \in DOMAIN session : WsDiscoverTick(ws)
    \/ \E ws \in DOMAIN session : WsClientGone(ws)
    \/ \E c \in DOMAIN mailbox : ActorRecvWs(c)
    \/ \E c \in DOMAIN storage, msg \in ProducerMessages :
          budget.batches < SpecBatches /\ ActorRecvProducer(c, msg)
    \/ \E c \in DOMAIN storage : ActorProducerClosed(c)

Spec == Init /\ [][Next]_vars

(***************************************************************************)
(* Browsers connect to and disconnect from producers.                      *)
(***************************************************************************)
NextConnect ==
    \/ NewWsConnection
    \/ \E ws \in DOMAIN session, addr \in ConnectAddrs : WsConnect(ws, addr)
    \/ ManagerConnect
    \/ \E ws \in DOMAIN session : WsConnectReply(ws)
    \/ \E ws \in DOMAIN session, conn_id \in ConnIdInputs :
          WsDisconnect(ws, conn_id)
    \/ ManagerDisconnect
    \/ \E c \in DOMAIN mailbox : ActorRecvWs(c)

SpecConnect == Init /\ [][NextConnect]_vars

(***************************************************************************)
(* One producer with more channels than a reply channel has permits, asked  *)
(* for ranges by the sessions.                                             *)
(***************************************************************************)
DispatchMessages ==
    { Events(1, << Instant(1, 1) >>),
      Events(2, << Instant(2, 1) >>),
      ExternalEvents(1, << Instant(3, 2) >>) }

NextDispatch ==
    \/ NewWsConnection
    \/ \E ws \in DOMAIN session :
          budget.connects < SpecConnects /\ WsConnect(ws, "a1")
    \/ ManagerConnect
    \/ \E ws \in DOMAIN session : WsConnectReply(ws)
    \/ \E ws \in DOMAIN session, conn_id \in DOMAIN sparkles_connections :
          budget.requests < SpecRequests /\ WsRequestNewRange(ws, conn_id, 0, 4)
    \/ \E ws \in DOMAIN session : WsRecvEvents(ws)
    \/ \E ws \in DOMAIN session : WsRecvClosed(ws)
    \/ \E c \in DOMAIN mailbox : ActorRecvWs(c)
    \/ \E c \in DOMAIN storage, msg \in DispatchMessages :
          ActorRecvProducer(c, msg)
    \/ \E c \in DOMAIN storage : ActorProducerClosed(c)

SpecDispatch == Init /\ [][NextDispatch]_vars

(***************************************************************************)
(* One session asking a producer whose store grows beyond the permits of a *)
(* reply channel, while the producer keeps sending the name of a channel.  *)
(***************************************************************************)
PendingSessions == 1
RepeatedMessage ==
    [type |-> "UpdateChannelName", channel_id |-> Thread(1),
     thread_name |-> "main"]

\* storage.msg_rx.recv() delivers the producer's repeated message: a turn of
\* the actor's loop that can be taken as often as the producer sends.
ActorRecvRepeated(c) ==
    /\ c \in DOMAIN storage
    /\ producer_open[c]
    /\ storage' = [storage EXCEPT ![c] =
                      handle_producer_message(@, RepeatedMessage)]
    /\ ProcessOneRequest(c, active_sending_requests[c], events_channel,
                         storage'[c])
    /\ UNCHANGED << test_vars, registry_vars, manager_vars, mailbox,
                    producer_open, ingested, session, socket, budget >>

NextPending ==
    \/ new_ws_connection_id < PendingSessions /\ NewWsConnection
    \/ \E ws \in DOMAIN session :
          budget.connects < SpecConnects /\ WsConnect(ws, "a1")
    \/ ManagerConnect
    \/ \E ws \in DOMAIN session : WsConnectReply(ws)
    \/ \E ws \in DOMAIN session, conn_id \in DOMAIN sparkles_connections :
          budget.requests < SpecRequests /\ WsRequestNewRange(ws, conn_id, 0, 4)
    \/ \E ws \in DOMAIN session : WsRecvEvents(ws)
    \/ \E ws \in DOMAIN session : WsRecvClosed(ws)
    \/ \E c \in DOMAIN mailbox : ActorRecvWs(c)
    \/ \E c \in DOMAIN storage, msg \in DispatchMessages :
          ActorRecvProducer(c, msg)
    \/ \E c \in DOMAIN storage : ActorRecvRepeated(c)

SpecPending == Init /\ [][NextPending]_vars

\* Weak fairness of the actor's conn.recv_message() arm, with its enabling
\* condition written out: the arm can be taken exactly when a mailbox holds
\* a message, and taking it shortens that mailbox.
ActorTakesMail ==
    \/ []<>(\A c \in DOMAIN mailbox : mailbox[c] = << >>)
    \/ []<><<\E c \in DOMAIN mailbox : ActorRecvWs(c)>>_vars

\* The runtime runs every task that is ready: the manager, the session and
\* the actor take what is waiting for them, and the producer keeps sending.
\* What the browser asks for is not forced.
TasksScheduled ==
    /\ WF_vars(ManagerConnect)
    /\ WF_vars(\E ws \in DOMAIN session : WsConnectReply(ws))
    /\ WF_vars(\E ws \in DOMAIN session : WsRecvEvents(ws))
    /\ WF_vars(\E ws \in DOMAIN session : WsRecvClosed(ws))
    /\ ActorTakesMail
    /\ WF_vars(\E c \in DOMAIN storage : ActorRecvRepeated(c))

LivePending == SpecPending /\ TasksScheduled

(***************************************************************************)
(* Every arm of the actor: queries of each kind reach the actor of a       *)
(* producer that sends batches, next to the range requests of a session.   *)
(***************************************************************************)
MaxArmQueries == 2
ArmQueries ==
    { [type |-> "GetEventNames", channel_id |-> Thread(1), resp |-> MaxWs],
      [type |-> "GetEventNames", channel_id |-> Thread(3), resp |-> MaxWs],
      [type |-> "GetChannelNames", resp |-> MaxWs],
      [type |-> "SetChannelName", channel_id |-> Thread(1), name |-> "main",
       resp |-> MaxWs],
      [type |-> "GetConnectionTimestamps", resp |-> MaxWs],
      [type |-> "GetStorageStats", resp |-> MaxWs] }

\* WsConnection::send_message for a query whose answer nobody waits for
\* (resp names no session): the message joins the actor's mailbox.
SendQuery(c, msg) ==
    /\ c \in DOMAIN sparkles_connections
    /\ budget.query_ticks < MaxArmQueries
    /\ budget' = [budget EXCEPT !.query_ticks = @ + 1]
    /\ mailbox' = [mailbox EXCEPT ![c] = Append(@, << MaxWs, msg >>)]
    /\ UNCHANGED << test_vars, registry_vars, manager_vars, storage,
                    producer_open, active_sending_requests, ingested,
                    dispatched, session_vars >>

NextArms ==
    \/ new_ws_connection_id < PendingSessions /\ NewWsConnection
    \/ \E ws \in DOMAIN session :
          budget.connects < SpecConnects /\ WsConnect(ws, "a1")
    \/ ManagerConnect
    \/ \E ws \in DOMAIN session : WsConnectReply(ws)
    \/ \E ws \in DOMAIN session, conn_id \in DOMAIN sparkles_connections :
          budget.requests = 0 /\ WsRequestNewRange(ws, conn_id, 0, 4)
    \/ \E ws \in DOMAIN session : WsRecvEvents(ws)
    \/ \E ws \in DOMAIN session : WsRecvClosed(ws)
    \/ \E c \in DOMAIN mailbox, msg \in ArmQueries : SendQuery(c, msg)
    \/ \E c \in DOMAIN mailbox : ActorRecvWs(c)
    \/ \E c \in DOMAIN storage, msg \in DispatchMessages :
          ActorRecvProducer(c, msg)

SpecArms == Init /\ [][NextArms]_vars

(***************************************************************************)
(* Producers that close on their own while a session connects and          *)
(* disconnects.                                                            *)
(***************************************************************************)
NextClosed ==
    \/ new_ws_connection_id < PendingSessions /\ NewWsConnection
    \/ \E ws \in DOMAIN session, addr \in Addrs : WsConnect(ws, addr)
    \/ ManagerConnect
    \/ \E ws \in DOMAIN session : WsConnectReply(ws)
    \/ \E ws \in DOMAIN session, conn_id \in ConnIdInputs :
          WsDisconnect(ws, conn_id)
    \/ ManagerDisconnect
    \/ \E c \in DOMAIN mailbox : ActorRecvWs(c)
    \/ \E c \in DOMAIN storage : ActorProducerClosed(c)

SpecClosed == Init /\ [][NextClosed]_vars

(***************************************************************************)
(* One session asking one producer of up to two channels for range after   *)
(* range.                                                                  *)
(***************************************************************************)
NextMsgIds ==
    \/ new_ws_connection_id < QuerySessions /\ NewWsConnection
    \/ \E ws \in DOMAIN session :
          budget.connects < SpecConnects /\ WsConnect(ws, "a1")
    \/ ManagerConnect
    \/ \E ws \in DOMAIN session : WsConnectReply(ws)
    \/ \E ws \in DOMAIN session, conn_id \in DOMAIN sparkles_connections :
          WsRequestNewRange(ws, conn_id, 0, 4)
    \/ \E ws \in DOMAIN session : WsRecvEvents(ws)
    \/ \E ws \in DOMAIN session : WsRecvClosed(ws)
    \/ \E c \in DOMAIN mailbox : ActorRecvWs(c)
    \/ \E c \in DOMAIN storage, msg \in DispatchMessages :
          budget.batches < SpecBatches /\ ActorRecvProducer(c, msg)

SpecMsgIds == Init /\ [][NextMsgIds]_vars

(***************************************************************************)
(* The sessions' tickers query the actors while producers send and close.  *)
(***************************************************************************)
NextQueries ==
    \/ new_ws_connection_id < QuerySessions /\ NewWsConnection
    \/ \E ws \in DOMAIN session, addr \in Addrs :
          budget.connects < SpecConnects /\ WsConnect(ws, addr)
    \/ ManagerConnect
    \/ \E ws \in DOMAIN session : WsConnectReply(ws)
    \/ \E ws \in DOMAIN session : WsActiveConnectionsTick(ws)
    \/ \E ws \in DOMAIN session : WsSyncTick(ws)
    \/ \E ws \in DOMAIN session : WsQueryReply(ws)
    \/ \E ws \in DOMAIN session, conn_id \in DOMAIN sparkles_connections :
          budget.requests = 0 /\ WsRequestNewRange(ws, conn_id, 0, 4)
    \/ \E ws \in DOMAIN session : WsRecvEvents(ws)
    \/ \E ws \in DOMAIN session : WsRecvClosed(ws)
    \/ \E c \in DOMAIN mailbox : ActorRecvWs(c)
    \/ \E c \in DOMAIN storage, msg \in ProducerMessages :
          budget.batches < SpecBatches /\ ActorRecvProducer(c, msg)
    \/ \E c \in DOMAIN storage : ActorProducerClosed(c)

SpecQueries == Init /\ [][NextQueries]_vars

(***************************************************************************)
(* One actor fed with every batch of up to MaxBatchLen events; ranges obey *)
(* start <= end, as the parser delivers them.                              *)
(***************************************************************************)
IngestEvents ==
    {Instant(tm, 1) : tm \in 0..2}
    \cup { Range(0, 1, 1, None, None),
           Range(1, 2, 1, Some(1), Some(7)),
           Range(2, 2, 1, Some(2), None) }

IngestBatches ==
    UNION {[1..n -> IngestEvents] : n \in 0..MaxBatchLen}

\* ExternalEvents carry no start_thread_ord_id.
as_external(events) ==
    [i \in DOMAIN events |->
        IF events[i].kind = "Range"
        THEN [events[i] EXCEPT !.start_thread_ord_id = None]
        ELSE events[i]]

IngestMessages ==
    {Events(1, b) : b \in IngestBatches}
    \cup {ExternalEvents(1, as_external(b)) : b \in IngestBatches}

NextIngest ==
    \/ NewWsConnection
    \/ \E ws \in DOMAIN session, addr \in Addrs :
          budget.connects < SpecConnects /\ WsConnect(ws, addr)
    \/ ManagerConnect
    \/ \E ws \in DOMAIN session : WsConnectReply(ws)
    \/ \E c \in DOMAIN storage, msg \in IngestMessages :
          budget.batches < SpecBatches /\ ActorRecvProducer(c, msg)

SpecIngest == Init /\ [][NextIngest]_vars

(***************************************************************************)
(* Windows and helpers of the properties.                                  *)
(***************************************************************************)
Windows == {w \in WindowEdges \X WindowEdges : w[1] <= w[2]}
ProperWindows == {w \in Windows : w[1] < w[2]}

SortedBy(seq, key(_)) ==
    \A i \in 1..(Len(seq) - 1) : key(seq[i]) <= key(seq[i + 1])
StartOf(r) == r.start
TmOf(e) == e.tm

\* The ranges of the history that went to the local (cross-thread) storage,
\* as that storage holds them.
LocalHistory ==
    SelectSeq(t_ranges, LAMBDA r : r.extra = None)
CrossHistory ==
    LET crossed == SelectSeq(t_ranges, LAMBDA r : r.extra # None)
    IN [i \in DOMAIN crossed |-> [crossed[i] EXCEPT !.extra = Unwrap(@)]]

RangeQueryExact(rs, history, s, e) ==
    LET got == request_events(rs, s, e)
        want == SelectSeq(history, LAMBDA r : r.start < e /\ r.end > s)
    IN SameBag(got, want) /\ SortedBy(got, StartOf)

\* C1: for every sequence of range inserts and every window with s < e,
\* request_events(s, e) yields exactly the stored ranges with start < e and
\* end > s, each once, in non-decreasing order of start.
C1_RangeQueryExact ==
    \A w \in ProperWindows :
        /\ RangeQueryExact(t_cs.range_events, LocalHistory, w[1], w[2])
        /\ RangeQueryExact(t_cs.cross_thread_range_events, CrossHistory,
                           w[1], w[2])

\* A window that yields two ranges of one storage sharing a start and leaves
\* out a stored range that ends at the window's start.
C1_Witness ==
    \E w \in ProperWindows :
        LET got == request_events(t_cs.range_events, w[1], w[2])
        IN /\ Len(got) >= 2
           /\ got[1].start = got[2].start
           /\ \E i \in DOMAIN LocalHistory :
                 LocalHistory[i].end = w[1] /\ LocalHistory[i].start < w[1]

\* C2: for every sequence of instant inserts and every window with s <= e,
\* request_instant_events(s, e) yields exactly the stored instants with
\* s <= tm < e, each once, in ascending tm order.
C2_InstantQueryExact ==
    \A w \in Windows :
        LET got == request_instant_events(t_cs, w[1], w[2])
            want == SelectSeq(t_instants,
                              LAMBDA i : w[1] <= i.tm /\ i.tm < w[2])
        IN SameBag(got, want) /\ SortedBy(got, TmOf)

\* Instants inserted out of order, and a window that holds some of them,
\* leaves out one at its end and one before its start.
C2_Witness ==
    /\ \E i \in 1..(Len(t_instants) - 1) : t_instants[i].tm > t_instants[i + 1].tm
    /\ \E w \in ProperWindows :
          /\ Len(request_instant_events(t_cs, w[1], w[2])) >= 2
          /\ \E i \in DOMAIN t_instants : t_instants[i].tm = w[2]
          /\ \E i \in DOMAIN t_instants : t_instants[i].tm < w[1]

\* C3: after any sequence of insert_instant_event calls the instants are
\* non-decreasing by tm and hold every inserted instant exactly once.
C3_InstantsSorted ==
    /\ SortedBy(t_cs.instant_events, TmOf)
    /\ SameBag(t_cs.instant_events, t_instants)

\* Both paths were taken: an insert below the last tm (slow path) and an
\* insert at or above it (fast path).
C3_Witness ==
    /\ Len(t_instants) >= 3
    /\ \E i \in 1..(Len(t_instants) - 1) : t_instants[i].tm > t_instants[i + 1].tm
    /\ \E i \in 1..(Len(t_instants) - 1) : t_instants[i].tm <= t_instants[i + 1].tm

\* The range records of a frame, local then cross-thread.
KeptRanges(frame) == frame.range_buf \o frame.foreign_range_buf

ActiveAt(r, t) == r.start <= t /\ t < r.end

\* All lanes below the clamp lane are held at time t.
LanesExhaustedAt(kept, t) ==
    \A y \in 0..(LAST_Y - 1) :
        \E k \in DOMAIN kept : kept[k].y = y /\ ActiveAt(kept[k], t)

\* C5: in every frame no two kept ranges of the channel that are active at
\* a common time carry the same lane, unless both carry the clamp lane
\* because every lower lane was held.
C5_LaneDiscipline ==
    \A w \in Windows :
        LET kept == KeptRanges(channel_frame(t_cs, w[1], w[2]))
        IN \A i, j \in DOMAIN kept :
              (i # j /\ \E t \in Times : ActiveAt(kept[i], t) /\ ActiveAt(kept[j], t))
              => \/ kept[i].y # kept[j].y
                 \/ /\ kept[i].y = LAST_Y
                    /\ kept[j].y = LAST_Y
                    /\ LanesExhaustedAt(kept, Max(kept[i].start, kept[j].start))

\* A frame with a local and a cross-thread range overlapping on different
\* lanes, and two overlapping ranges both clamped to the last lane.
C5_Witness ==
    \E w \in Windows :
        LET f == channel_frame(t_cs, w[1], w[2])
            kept == KeptRanges(f)
        IN /\ \E i \in DOMAIN f.range_buf, j \in DOMAIN f.foreign_range_buf :
                 /\ \E t \in Times : ActiveAt(f.range_buf[i], t)
                                     /\ ActiveAt(f.foreign_range_buf[j], t)
                 /\ f.range_buf[i].y # f.foreign_range_buf[j].y
           /\ \E i, j \in DOMAIN kept :
                 /\ i # j
                 /\ \E t \in Times : ActiveAt(kept[i], t) /\ ActiveAt(kept[j], t)
                 /\ kept[i].y = LAST_Y /\ kept[j].y = LAST_Y

\* C6 as claimed: when skip_thr is zero, a class with events in the window
\* has at most MAX_EV_CNT of them emitted.
C6_DenseCap ==
    \A w \in Windows :
        skip_threshold(w[1], w[2]) = 0 =>
            LET f == channel_frame(t_cs, w[1], w[2])
            IN /\ Len(request_instant_events(t_cs, w[1], w[2])) > 0
                    => Len(f.instants) <= MAX_EV_CNT
               /\ Len(KeptRanges(f)) <= MAX_EV_CNT

\* C7: whatever skip_thr is, every instant of the window that lies at least
\* skip_thr after the instant before it in the window is emitted: each
\* (tm, name_id) is emitted at least as often as it occurs so placed.
C7_FarInstantsKept ==
    \A w \in Windows :
        LET win == request_instant_events(t_cs, w[1], w[2])
            thr == skip_threshold(w[1], w[2])
            out == channel_frame(t_cs, w[1], w[2]).instants
            far == {i \in 2..Len(win) : win[i].tm - win[i - 1].tm >= thr}
        IN \A i \in far :
              Cardinality({k \in DOMAIN out :
                             out[k].tm = win[i].tm /\ out[k].name_id = win[i].name_id})
              >= Cardinality({j \in far : win[j] = win[i]})

\* A window where the decimator skipped an instant, and an instant far from
\* its predecessor is followed by a close one.
C7_Witness ==
    \E w \in Windows :
        LET win == request_instant_events(t_cs, w[1], w[2])
            thr == skip_threshold(w[1], w[2])
            f == channel_frame(t_cs, w[1], w[2])
        IN /\ f.stats.skipped_instant > 0
           /\ \E i \in 2..(Len(win) - 1) :
                 /\ win[i].tm - win[i - 1].tm >= thr
                 /\ win[i + 1].tm - win[i].tm < thr

\* C4: after any number of Events and ExternalEvents batches on a
\* connection, min_tm <= max_tm and min_tm <= t <= max_tm for every instant
\* tm, range start and range end ever ingested on it.
C4_TimestampBounds ==
    \A c \in DOMAIN storage :
        ingested[c] # {} =>
            /\ IsSome(storage[c].conn_timestamps)
            /\ LET ts == Unwrap(storage[c].conn_timestamps)
               IN /\ ts.min_tm <= ts.max_tm
                  /\ \A tm \in ingested[c] : ts.min_tm <= tm /\ tm <= ts.max_tm

\* Batches on a thread channel and on an external channel, the last one
\* lying strictly inside the bounds of the earlier ones.
C4_Witness ==
    \E c \in DOMAIN storage :
        /\ Cardinality(DOMAIN storage[c].channel_events) = 2
        /\ IsSome(storage[c].conn_timestamps)
        /\ Unwrap(storage[c].conn_timestamps).min_tm = 0
        /\ Unwrap(storage[c].conn_timestamps).last_sync_tm = 1
        /\ Unwrap(storage[c].conn_timestamps).max_tm = 2

IsType(m, ty) == m.type = ty

\* C8: on one WebSocket every binary frame directly follows a
\* NewEventsHeader, and the u32 appended to it is that header's msg_id.
C8_HeaderThenBinary ==
    \A ws \in DOMAIN socket :
        \A i \in DOMAIN socket[ws] :
            IsType(socket[ws][i], "Binary") =>
                /\ i > 1
                /\ IsType(socket[ws][i - 1], "NewEventsHeader")
                /\ from_le_bytes_u32(socket[ws][i].trailer)
                      = socket[ws][i - 1].msg_id

\* A socket that carried two frames and a discovery snapshot sent between
\* the first frame's bytes and the second frame's header.
C8_Witness ==
    \E ws \in DOMAIN socket :
        \E i \in DOMAIN socket[ws] :
            /\ IsType(socket[ws][i], "Binary")
            /\ i + 3 <= Len(socket[ws])
            /\ IsType(socket[ws][i + 1], "DiscoveredClients")
            /\ IsType(socket[ws][i + 2], "NewEventsHeader")
            /\ IsType(socket[ws][i + 3], "Binary")
            /\ socket[ws][i + 2].msg_id = 1

\* The step in which session ws handles a RequestNewRange command.
ReceivesRequest(ws) ==
    /\ ws \in DOMAIN session
    /\ session'[ws].requests = session[ws].requests + 1

\* C9: a RequestNewRange received while Waiting is answered with a
\* ConnectError, reaches no actor and leaves the outstanding request as it
\* was: still Waiting, same reply channel, same conn_id.
C9_BusyRejected ==
    [][\A ws \in DOMAIN session :
         (ReceivesRequest(ws) /\ session[ws].is_channel_registered) =>
            /\ Len(socket'[ws]) = Len(socket[ws]) + 1
            /\ IsType(socket'[ws][Len(socket'[ws])], "ConnectError")
            /\ SubSeq(socket'[ws], 1, Len(socket[ws])) = socket[ws]
            /\ mailbox' = mailbox
            /\ active_sending_requests' = active_sending_requests
            /\ events_channel' = events_channel
            /\ session'[ws].pc = "select"
            /\ session'[ws].is_channel_registered
            /\ session'[ws].current_sparkles_id = session[ws].current_sparkles_id
      ]_vars

\* A session still Waiting that has answered a second RequestNewRange with
\* the error.
C9_Witness ==
    \E ws \in DOMAIN session :
        /\ session[ws].is_channel_registered
        /\ session[ws].requests = 2
        /\ session[ws].accepted = 1
        /\ \E i \in DOMAIN socket[ws] :
              /\ IsType(socket[ws][i], "ConnectError")
              /\ socket[ws][i].msg = "Already waiting for a range"

Finished(log) == Cardinality({i \in DOMAIN log : IsType(log[i], "EventsFinished")})

IsHeader(m) == IsType(m, "NewEventsHeader")

LastFinished(log) ==
    LET fin == {i \in DOMAIN log : IsType(log[i], "EventsFinished")}
    IN IF fin = {} THEN 0 ELSE CHOOSE i \in fin : \A j \in fin : j <= i

\* The channel ids of the headers a session sent after its last
\* EventsFinished, in order.
HeaderChannels(log) ==
    LET hs == SelectSeq(SubSeq(log, LastFinished(log) + 1, Len(log)), IsHeader)
    IN [i \in DOMAIN hs |-> hs[i].channel_id]

ChannelIdsOf(frames) == [i \in DOMAIN frames |-> frames[i].channel_id]

\* C11: a dispatch whose permits were reserved puts one tuple per channel of
\* the store at that moment on the reply channel (N tuples, every ChannelId
\* once), drops the reply sender and leaves no pending entry; the session
\* then relays exactly those N frames before it sends EventsFinished.
C11_OneFramePerChannel ==
    [][\A ws \in DOMAIN session :
         /\ (dispatched[ws] = None /\ dispatched'[ws] # None) =>
               LET o == Unwrap(dispatched'[ws])
                   c == session[ws].current_sparkles_id
                   chans == DOMAIN storage'[c].channel_events
               IN /\ Len(o) = Cardinality(chans)
                  /\ {o[i] : i \in DOMAIN o} = chans
                  /\ events_channel[ws].buf = << >>
                  /\ ChannelIdsOf(events_channel'[ws].buf) = o
                  /\ ~events_channel'[ws].tx_alive
                  /\ \A k \in DOMAIN active_sending_requests'[c] :
                        active_sending_requests'[c][k].resp # ws
         /\ (Finished(socket'[ws]) # Finished(socket[ws]) /\ dispatched[ws] # None)
               => HeaderChannels(socket[ws]) = Unwrap(dispatched[ws])
      ]_vars

\* A session that relayed the two frames of a dispatch over a store of two
\* channels and then EventsFinished.
C11_Witness ==
    \E ws \in DOMAIN session :
        /\ dispatched[ws] # None
        /\ Len(Unwrap(dispatched[ws])) = 2
        /\ ~session[ws].is_channel_registered
        /\ Finished(socket[ws]) = 1
        /\ Len(SelectSeq(socket[ws], IsHeader)) = 2

\* The step in which actor c takes the head of its mailbox.
ActorTakes(c) ==
    /\ c \in DOMAIN mailbox
    /\ mailbox[c] # << >>
    /\ mailbox'[c] = Tail(mailbox[c])

C13_OnlineUntilClose ==
    /\ [](\A o \in Orders(DOMAIN sparkles_connections) :
            \A i \in DOMAIN o :
               /\ all_sparkles_connections(o)[i].id = o[i]
               /\ all_sparkles_connections(o)[i].online = producer_open[o[i]])
    /\ [][\A c \in DOMAIN sparkles_connections :
            /\ ~producer_open[c] => ~producer_open'[c]
            /\ c \in disconnected_connections => c \in disconnected_connections'
         ]_vars

\* A browser that was shown the connection online and, by a later tick,
\* offline.
C13_Witness ==
    \E ws \in DOMAIN socket : \E i, j \in DOMAIN socket[ws] :
        /\ i < j
        /\ IsType(socket[ws][i], "ActiveConnections")
        /\ IsType(socket[ws][j], "ActiveConnections")
        /\ Len(socket[ws][i].conns) = 1 /\ socket[ws][i].conns[1].online
        /\ Len(socket[ws][j].conns) = 1 /\ ~socket[ws][j].conns[1].online
        /\ socket[ws][i].conns[1].id = socket[ws][j].conns[1].id

\* The step in which the manager takes a control message of this kind.
ManagerTakes(kind) ==
    /\ control_msgs # << >>
    /\ Head(control_msgs).type = kind
    /\ control_msgs' = Tail(control_msgs)

ConnectAnswer(m) == session'[m.resp].connect_resp

NothingConnected ==
    UNCHANGED << active_connections, sparkles_connections,
                 new_sparkles_connection_id, disconnected_connections,
                 mailbox, storage, producer_open, active_sending_requests >>

\* C14: a Connect for an address already in active_connections is answered
\* Err("Already connected"); active_connections, the registry, its id
\* counter and the set of actors stay as they were.
C14_AlreadyConnected ==
    [][(ManagerTakes("Connect")
          /\ Head(control_msgs).addr \in active_connections) =>
            /\ ConnectAnswer(Head(control_msgs))
                  = Some([ok |-> FALSE, msg |-> "Already connected"])
            /\ NothingConnected
      ]_vars

\* A browser was refused with "Already connected" while the address was
\* connected once.
C14_Witness ==
    /\ \E ws \in DOMAIN socket : \E i \in DOMAIN socket[ws] :
          /\ IsType(socket[ws][i], "ConnectError")
          /\ socket[ws][i].msg = "Already connected"
    /\ Cardinality(DOMAIN sparkles_connections) = 1

\* Some discovered group holds addr and an address of active_connections.
InActiveGroup(addr) ==
    \E i \in DOMAIN DiscoveredClients :
        /\ addr \in DiscoveredClients[i]
        /\ \E member \in DiscoveredClients[i] : member \in active_connections

\* C15: a Connect for an address not in active_connections is refused with
\* Err("Already connected to this client"), changing nothing, when a
\* discovered group holds it together with an active address; otherwise the
\* address joins active_connections, the next producer id is registered for
\* it with an actor of its own, and Ok(id) is the answer.
C15_GroupCheck ==
    [][(ManagerTakes("Connect")
          /\ Head(control_msgs).addr \notin active_connections) =>
            LET m == Head(control_msgs)
                id == new_sparkles_connection_id
            IN IF InActiveGroup(m.addr)
               THEN /\ ConnectAnswer(m) =
                         Some([ok |-> FALSE,
                               msg |-> "Already connected to this client"])
                    /\ NothingConnected
               ELSE /\ ConnectAnswer(m) = Some([ok |-> TRUE, id |-> id])
                    /\ active_connections' = active_connections \cup {m.addr}
                    /\ id \notin DOMAIN sparkles_connections
                    /\ sparkles_connections' = Extend(sparkles_connections, id, m.addr)
                    /\ DOMAIN mailbox' = DOMAIN mailbox \cup {id}
                    /\ storage'[id] = ClientStorage_new
                    /\ producer_open'[id]
      ]_vars

\* One address of the discovered group and the address outside it are
\* connected, and a browser was refused for the group's other address.
C15_Witness ==
    /\ \E ws \in DOMAIN socket : \E i \in DOMAIN socket[ws] :
          /\ IsType(socket[ws][i], "ConnectError")
          /\ socket[ws][i].msg = "Already connected to this client"
    /\ "b1" \in active_connections
    /\ Cardinality(active_connections) = 2
    /\ Cardinality(DOMAIN sparkles_connections) = 2

\* C16: when the manager takes Disconnect(id) for a registered id, the
\* connection's address leaves active_connections and a Disconnect is put
\* into that actor's mailbox; for an unregistered id nothing changes.  A
\* Connect is refused with "Already connected" only for an address that is
\* in active_connections.
C16_DisconnectFreesAddress ==
    [][/\ ManagerTakes("Disconnect") =>
            LET id == Head(control_msgs).id
            IN IF id \in DOMAIN sparkles_connections
               THEN /\ sparkles_connections[id] \notin active_connections'
                    /\ active_connections' =
                          active_connections \ {sparkles_connections[id]}
                    /\ mailbox' = [mailbox EXCEPT ![id] =
                          Append(@, << id, [type |-> "Disconnect"] >>)]
                    /\ UNCHANGED << registry_vars, storage, producer_open,
                                    active_sending_requests, session_vars >>
               ELSE UNCHANGED << registry_vars, active_connections,
                                 actor_vars, session_vars >>
       /\ (ManagerTakes("Connect")
             /\ Head(control_msgs).addr \notin active_connections) =>
            ConnectAnswer(Head(control_msgs))
               # Some([ok |-> FALSE, msg |-> "Already connected"])
      ]_vars

\* After Disconnect(0) reached the manager and the actor, the address of
\* connection 0 was connected again under a new id.
C16_Witness ==
    \E c1, c2 \in DOMAIN sparkles_connections :
        /\ c1 < c2
        /\ sparkles_connections[c1] = sparkles_connections[c2]
        /\ c1 \in disconnected_connections
        /\ sparkles_connections[c2] \in active_connections

\* A turn of actor c's loop: a mailbox message, a producer batch or the
\* close of the producer channel.
ActorTurn(c) ==
    \/ ActorTakes(c)
    \/ budget'.batches # budget.batches /\ storage'[c] # storage[c]
    \/ producer_open[c] /\ ~producer_open'[c]

\* The arm of this turn is a RequestNewRange received under the key k.
ArmInsertsUnder(c, k) ==
    /\ ActorTakes(c)
    /\ Head(mailbox[c])[2].type = "RequestNewRange"
    /\ Head(mailbox[c])[1] = k

\* n permits cannot be reserved on ch.
CannotReserve(ch, n) ==
    \/ ~ch.rx_alive
    \/ n > EVENTS_CHANNEL_CAP - Len(ch.buf)

\* C17: a request is attempted in the turn that receives it and, while
\* pending, on every later turn of its actor's loop.
\* While N permits (N = channels of the store) cannot be reserved on its
\* reply channel, the turn sends nothing on that channel and leaves the
\* request pending with its start, end and reply channel; a pending request
\* never has a frame of its answer sent.
C17_RequeuedWhenNoPermits ==
    /\ [](\A c \in DOMAIN active_sending_requests :
            \A k \in DOMAIN active_sending_requests[c] :
               LET req == active_sending_requests[c][k]
               IN /\ events_channel[req.resp].buf = << >>
                  /\ events_channel[req.resp].tx_alive
                  /\ dispatched[req.resp] = None)
    /\ [][\A c \in DOMAIN active_sending_requests :
            \A k \in DOMAIN active_sending_requests[c] :
               LET req == active_sending_requests[c][k]
                   n == Cardinality(DOMAIN storage'[c].channel_events)
               IN (ActorTurn(c) /\ ~ArmInsertsUnder(c, k)) =>
                    IF CannotReserve(events_channel[req.resp], n)
                    THEN /\ k \in DOMAIN active_sending_requests'[c]
                         /\ active_sending_requests'[c][k] = req
                         /\ events_channel'[req.resp] = events_channel[req.resp]
                    ELSE DOMAIN active_sending_requests[c] = {k} =>
                         /\ k \notin DOMAIN active_sending_requests'[c]
                         /\ dispatched'[req.resp] # None
         ]_vars
    /\ [][\A c \in DOMAIN mailbox :
            (ActorTakes(c) /\ Head(mailbox[c])[2].type = "RequestNewRange") =>
               LET k == Head(mailbox[c])[1]
                   msg == Head(mailbox[c])[2]
                   n == Cardinality(DOMAIN storage[c].channel_events)
               IN IF CannotReserve(events_channel[msg.events_channel], n)
                  THEN /\ k \in DOMAIN active_sending_requests'[c]
                       /\ active_sending_requests'[c][k] =
                             [resp |-> msg.events_channel,
                              start |-> msg.start, end |-> msg.end]
                       /\ events_channel'[msg.events_channel].buf = << >>
                       /\ events_channel'[msg.events_channel].tx_alive
                  ELSE /\ k \notin DOMAIN active_sending_requests'[c]
                       /\ Len(events_channel'[msg.events_channel].buf) = n
         ]_vars

\* A request of a live session is pending at an actor whose store has more
\* channels than the reply channel has permits, after the producer channel
\* closed; the browser has received nothing for it.
C17_Witness ==
    \E c \in DOMAIN active_sending_requests :
      \E k \in DOMAIN active_sending_requests[c] :
        LET req == active_sending_requests[c][k]
        IN /\ Cardinality(DOMAIN storage[c].channel_events) > EVENTS_CHANNEL_CAP
           /\ events_channel[req.resp].rx_alive
           /\ session[req.resp].is_channel_registered
           /\ socket[req.resp] = << >>
           /\ mailbox[c] = << >>
           /\ ~producer_open[c]

\* C18: pending requests are keyed by the requesting session; a
\* RequestNewRange of one session leaves the pending request of another
\* session in place (or that request is dispatched in the same turn).
C18_KeyedBySession ==
    [][\A c \in DOMAIN active_sending_requests :
         \A k \in DOMAIN active_sending_requests[c] :
            LET req == active_sending_requests[c][k]
            IN (/\ ActorTakes(c)
                /\ Head(mailbox[c])[2].type = "RequestNewRange"
                /\ Head(mailbox[c])[2].events_channel # req.resp
                /\ events_channel[req.resp].rx_alive) =>
                  \/ /\ k \in DOMAIN active_sending_requests'[c]
                     /\ active_sending_requests'[c][k] = req
                  \/ dispatched'[req.resp] # None
      ]_vars

\* C19: a request whose reply channel has lost its receiver when the actor
\* attempts it, in the turn that receives it or in a later one, is not
\* pending after that turn.
C19_ClosedReplyDropped ==
    [][\A c \in DOMAIN active_sending_requests :
         /\ \A k \in DOMAIN active_sending_requests[c] :
               LET req == active_sending_requests[c][k]
               IN (/\ ActorTurn(c)
                   /\ ~ArmInsertsUnder(c, k)
                   /\ DOMAIN active_sending_requests[c] = {k}
                   /\ ~events_channel[req.resp].rx_alive) =>
                     k \notin DOMAIN active_sending_requests'[c]
         /\ (/\ ActorTakes(c)
             /\ Head(mailbox[c])[2].type = "RequestNewRange"
             /\ ~events_channel[Head(mailbox[c])[2].events_channel].rx_alive) =>
               Head(mailbox[c])[1] \notin DOMAIN active_sending_requests'[c]
      ]_vars

\* C20: a RequestNewRange of an Idle session that reaches no actor, its
\* conn_id not being registered, leaves the session open and selecting.
C20_UnknownConnKeepsSession ==
    [][\A ws \in DOMAIN session :
         (/\ ReceivesRequest(ws)
          /\ ~session[ws].is_channel_registered
          /\ mailbox' = mailbox) =>
            /\ session'[ws].pc = "select"
            /\ ws \in ws_connections'
            /\ events_channel'[ws].rx_alive
      ]_vars

\* C21: the ids returned for sessions strictly increase, and so do the ids
\* returned for producer connections, so none is returned twice; the id of
\* a dropped handle is absent from its registry map.
C21_IdsNeverReused ==
    /\ \A i, j \in DOMAIN t_registry.ws_ids :
          i < j => t_registry.ws_ids[i] < t_registry.ws_ids[j]
    /\ \A i, j \in DOMAIN t_registry.conn_ids :
          i < j => t_registry.conn_ids[i] < t_registry.conn_ids[j]
    /\ \A h \in DOMAIN t_registry.ws_ids :
          h \notin t_registry.ws_live =>
             t_registry.ws_ids[h] \notin ws_connections
    /\ \A h \in DOMAIN t_registry.conn_ids :
          h \notin t_registry.conn_live =>
             t_registry.conn_ids[h] \notin DOMAIN sparkles_connections

\* The query over [s, e) yields a range from t to t.
YieldsZeroLength(rs, t, s, e) ==
    \E i \in DOMAIN request_events(rs, s, e) :
        /\ request_events(rs, s, e)[i].start = t
        /\ request_events(rs, s, e)[i].end = t

\* C22: for a window [s, e) with s < e, a stored zero-length range at t is
\* yielded when t = s and is not yielded when t = e.
C22_ZeroLengthAtBoundary ==
    \A w \in ProperWindows :
        \A i \in DOMAIN LocalHistory :
            LET r == LocalHistory[i]
            IN r.start = r.end =>
                 /\ r.start = w[1] =>
                       YieldsZeroLength(t_cs.range_events, r.start, w[1], w[2])
                 /\ r.start = w[2] =>
                       ~YieldsZeroLength(t_cs.range_events, r.start, w[1], w[2])

\* The step in which the outstanding request of session ws is dispatched.
Dispatches(ws) ==
    /\ ws \in DOMAIN session
    /\ dispatched[ws] = None
    /\ dispatched'[ws] # None

\* A frame whose three sections are empty.
EmptyFrame(item) ==
    /\ item.data.instants = << >>
    /\ item.data.range_buf = << >>
    /\ item.data.foreign_range_buf = << >>

\* C23: the dispatch of a request on a connection whose store has received
\* no events puts frames with three empty sections, and at least one of
\* them, on the reply channel before the channel is closed.
C23_EmptyStoreFrame ==
    [][\A ws \in DOMAIN session :
         LET c == session[ws].current_sparkles_id
         IN (Dispatches(ws) /\ c \in DOMAIN ingested /\ ingested'[c] = {}) =>
              /\ Len(events_channel'[ws].buf) >= 1
              /\ \A i \in DOMAIN events_channel'[ws].buf :
                    EmptyFrame(events_channel'[ws].buf[i])
      ]_vars

\* C24: for every channel content and window, the total_instant sent with
\* the frame is the number of the channel's instants with tm in [start, end).
C24_TotalInstantIsCount ==
    \A w \in Windows :
        channel_frame(t_cs, w[1], w[2]).stats.total_instant
           = Cardinality({i \in DOMAIN t_instants :
                             w[1] <= t_instants[i].tm /\ t_instants[i].tm < w[2]})

(***************************************************************************)
(* C25: decoding the bytes of an emitted frame by the frame grammar yields *)
(* exactly the kept instants, local ranges and cross-thread ranges of the  *)
(* frame, whether an end_name_id is present or absent.                     *)
(***************************************************************************)
FrameRecords(frame) ==
    [instants |-> frame.instants, range_buf |-> frame.range_buf,
     foreign_range_buf |-> frame.foreign_range_buf]

C25_FrameRoundTrip ==
    \A w \in RequestWindows :
        LET frame == channel_frame(t_cs, w[1], w[2])
        IN decode_frame(encode_frame(frame)) = FrameRecords(frame)

\* The same round trip for the frames whose kept ranges carry no end name
\* with the low byte of the absence marker.
NoSentinelEndName(frame) ==
    \A buf \in {frame.range_buf, frame.foreign_range_buf} :
        \A i \in DOMAIN buf :
            IsSome(buf[i].end_name_id)
               => Unwrap(buf[i].end_name_id) % 256 # SENTINEL

C25_RoundTripWithoutSentinel ==
    \A w \in RequestWindows :
        LET frame == channel_frame(t_cs, w[1], w[2])
        IN NoSentinelEndName(frame)
              => decode_frame(encode_frame(frame)) = FrameRecords(frame)

(***************************************************************************)
(* C26: among the instants of one channel with equal tm, the stored order  *)
(* is the order of insertion, on the append path and on the binary-search  *)
(* path alike.                                                             *)
(***************************************************************************)
RECURSIVE WithTm(_, _, _)
WithTm(seq, tm, i) ==
    IF i > Len(seq) THEN << >>
    ELSE (IF seq[i].tm = tm THEN << seq[i] >> ELSE << >>)
         \o WithTm(seq, tm, i + 1)

C26_EqualTmInsertionOrder ==
    \A tm \in Times :
        WithTm(t_cs.instant_events, tm, 1) = WithTm(t_instants, tm, 1)

(***************************************************************************)
(* C27: the merge of a channel's local and cross-thread query results      *)
(* holds every element of both inputs exactly once and in their order, is  *)
(* non-decreasing in start, puts a local range before a cross-thread range *)
(* of the same start, and never trips the order check of                   *)
(* process_range_events.                                                   *)
(***************************************************************************)
RECURSIVE OfKind(_, _, _)
OfKind(merged, kind, i) ==
    IF i > Len(merged) THEN << >>
    ELSE (IF merged[i].kind = kind THEN << merged[i] >> ELSE << >>)
         \o OfKind(merged, kind, i + 1)

MergeOf(w) ==
    merge_range_events(request_range_events(t_cs, w[1], w[2]),
                       request_cross_thread_range_events(t_cs, w[1], w[2]))

C27_MergeOrdered ==
    \A w \in ProperWindows :
        LET locals == request_range_events(t_cs, w[1], w[2])
            crosses == request_cross_thread_range_events(t_cs, w[1], w[2])
            merged == MergeOf(w)
        IN /\ OfKind(merged, "Local", 1)
                = [i \in DOMAIN locals |-> Local(locals[i])]
           /\ OfKind(merged, "CrossThread", 1)
                = [i \in DOMAIN crosses |-> CrossThread(crosses[i])]
           /\ \A i, j \in DOMAIN merged :
                 i < j => merged[i].start <= merged[j].start
           /\ \A i, j \in DOMAIN merged :
                 (/\ merged[i].kind = "Local"
                  /\ merged[j].kind = "CrossThread"
                  /\ merged[i].start = merged[j].start) => i < j
           /\ ~channel_frame(t_cs, w[1], w[2]).panicked

\* Both kinds meet at one start, with a later range after them.
C27_Witness ==
    \E w \in ProperWindows :
        LET merged == MergeOf(w)
        IN \E i, j, k \in DOMAIN merged :
              /\ merged[i].kind = "Local" /\ merged[j].kind = "CrossThread"
              /\ merged[i].start = merged[j].start
              /\ merged[k].start > merged[i].start

(***************************************************************************)
(* C28: lanes are given first-fit over the kept ranges in merged start     *)
(* order: a kept range gets the smallest lane below the clamp lane that no *)
(* earlier kept range with end > its start holds, or the clamp lane when   *)
(* all of them are held; a lane is free again for a range starting at or   *)
(* after its holder's end.                                                 *)
(***************************************************************************)
\* The kept ranges of a frame, each tagged with its buffer and index.
KeptEntries(frame) ==
    {<< "Local", i >> : i \in DOMAIN frame.range_buf}
        \cup {<< "CrossThread", i >> : i \in DOMAIN frame.foreign_range_buf}

KeptRec(frame, x) ==
    IF x[1] = "Local" THEN frame.range_buf[x[2]]
    ELSE frame.foreign_range_buf[x[2]]

\* a was placed before b: merged start order, local first on a tie.
PlacedBefore(frame, a, b) ==
    LET ra == KeptRec(frame, a)
        rb == KeptRec(frame, b)
    IN \/ ra.start < rb.start
       \/ /\ ra.start = rb.start
          /\ \/ a[1] = "Local" /\ b[1] = "CrossThread"
             \/ a[1] = b[1] /\ a[2] < b[2]

\* The lanes below the clamp lane held when x is placed.
HeldFor(frame, x) ==
    {y \in 0..(LAST_Y - 1) :
        \E e \in KeptEntries(frame) :
            /\ PlacedBefore(frame, e, x)
            /\ KeptRec(frame, e).y = y
            /\ KeptRec(frame, e).end > KeptRec(frame, x).start}

FirstFit(held) ==
    IF held = 0..(LAST_Y - 1) THEN LAST_Y
    ELSE CHOOSE y \in (0..(LAST_Y - 1)) \ held :
            \A z \in (0..(LAST_Y - 1)) \ held : y <= z

C28_FirstFitLanes ==
    \A w \in Windows :
        LET frame == channel_frame(t_cs, w[1], w[2])
        IN \A x \in KeptEntries(frame) :
              KeptRec(frame, x).y = FirstFit(HeldFor(frame, x))

\* A frame in which a range took the clamp lane and a later range took lane
\* 0 again from a finished holder while lane 1 was still held.
C28_Witness ==
    \E w \in Windows :
        LET frame == channel_frame(t_cs, w[1], w[2])
        IN \E c, x \in KeptEntries(frame) :
              /\ KeptRec(frame, c).y = LAST_Y
              /\ KeptRec(frame, x).y = 0
              /\ HeldFor(frame, x) = 1..(LAST_Y - 1)
              /\ \E e \in KeptEntries(frame) :
                    /\ PlacedBefore(frame, e, x)
                    /\ KeptRec(frame, e).y = 0
                    /\ KeptRec(frame, e).end <= KeptRec(frame, x).start

(***************************************************************************)
(* C29: all instant records of one frame carry the same y, min of          *)
(* max_range_y + 1 and the clamp lane, where max_range_y is the largest    *)
(* lane of a kept range of the frame, 0 when no range was kept.            *)
(***************************************************************************)
LargestRangeLane(frame) ==
    LET lanes == {KeptRanges(frame)[i].y : i \in DOMAIN KeptRanges(frame)}
    IN IF lanes = {} THEN 0
       ELSE CHOOSE y \in lanes : \A z \in lanes : z <= y

C29_InstantLane ==
    \A w \in Windows :
        LET frame == channel_frame(t_cs, w[1], w[2])
            top == LargestRangeLane(frame)
        IN \A i \in DOMAIN frame.instants :
              frame.instants[i].y = IF top + 1 < LAST_Y THEN top + 1
                                    ELSE LAST_Y

\* Two instants above ranges that reach the clamp lane.
C29_Witness ==
    \E w \in Windows :
        LET frame == channel_frame(t_cs, w[1], w[2])
        IN /\ Len(frame.instants) >= 2
           /\ LargestRangeLane(frame) = LAST_Y
           /\ \A i \in DOMAIN frame.instants : frame.instants[i].y = LAST_Y

\* Two instants in a frame without ranges, on lane 1.
C29_WitnessNoRanges ==
    \E w \in Windows :
        LET frame == channel_frame(t_cs, w[1], w[2])
        IN /\ Len(frame.instants) >= 2
           /\ KeptRanges(frame) = << >>
           /\ \A i \in DOMAIN frame.instants : frame.instants[i].y = 1

(***************************************************************************)
(* C30: keep_cnt and skip_cnt are (1, ceil(total / MAX_EV_CNT)) when       *)
(* total > MAX_EV_CNT, (MAX_EV_CNT / total, 1) when 0 < total <=           *)
(* MAX_EV_CNT and (1, 1) when total = 0; over a maximal run of close       *)
(* events after a far event or the start the skipper keeps keep_cnt, then  *)
(* skips skip_cnt, repeating; a far event is kept and resets the counter.  *)
(***************************************************************************)
CeilDiv(a, b) == CHOOSE n \in 0..a : n * b >= a /\ (n = 0 \/ (n - 1) * b < a)

KeepCnt(total) ==
    IF total > MAX_EV_CNT THEN 1
    ELSE IF total > 0 THEN MAX_EV_CNT \div total
    ELSE 1

SkipCnt(total) ==
    IF total > MAX_EV_CNT THEN CeilDiv(total, MAX_EV_CNT) ELSE 1

\* How many close events lie between call i and the far event (or the
\* start) before it.
RECURSIVE PlaceInRun(_, _)
PlaceInRun(log, i) ==
    IF i = 1 \/ ~log[i - 1].close THEN 0
    ELSE 1 + PlaceInRun(log, i - 1)

C30_KeepSkipPattern ==
    IsSome(t_skipper.sk) =>
        LET sk == Unwrap(t_skipper.sk)
            log == t_skipper.log
            keep_cnt == KeepCnt(t_skipper.total_events)
            skip_cnt == SkipCnt(t_skipper.total_events)
        IN /\ sk.keep_cnt = keep_cnt
           /\ sk.skip_cnt = skip_cnt
           /\ \A i \in DOMAIN log :
                 IF log[i].close
                 THEN log[i].keep
                        <=> PlaceInRun(log, i) % (keep_cnt + skip_cnt) < keep_cnt
                 ELSE log[i].keep
           /\ (log # << >> /\ ~log[Len(log)].close) => sk.counter = 0

\* A run after a far event that went through keep, skip_cnt > 1 skips and
\* keep again.
C30_Witness ==
    /\ IsSome(t_skipper.sk)
    /\ SkipCnt(t_skipper.total_events) > 1
    /\ LET log == t_skipper.log
       IN \E i \in DOMAIN log :
             /\ ~log[i].close
             /\ i + 4 <= Len(log)
             /\ \A j \in (i + 1)..(i + 4) : log[j].close
             /\ log[i + 1].keep /\ ~log[i + 2].keep /\ ~log[i + 3].keep
             /\ log[i + 4].keep

\* A skipper with keep_cnt > 1 that kept two close events and skipped the
\* third.
C30_WitnessKeepMany ==
    /\ IsSome(t_skipper.sk)
    /\ KeepCnt(t_skipper.total_events) > 1
    /\ LET log == t_skipper.log
       IN /\ Len(log) >= 3
          /\ \A j \in 1..3 : log[j].close
          /\ log[1].keep /\ log[2].keep /\ ~log[3].keep

(***************************************************************************)
(* C31: a range of the window may be skipped only when its duration is     *)
(* below skip_thr and its start is less than skip_thr after the start of   *)
(* the range before it in the merged stream, kept or not; every other      *)
(* range, and the first range of the merged stream, is emitted.            *)
(***************************************************************************)
\* Range i of the merged stream is not subject to skipping.
MustKeep(merged, i, skip_thr) ==
    \/ i = 1
    \/ merged[i].end - merged[i].start >= skip_thr
    \/ merged[i].start - merged[i - 1].start >= skip_thr

SameRange(a, b) ==
    /\ a.start = b.start /\ a.end = b.end /\ a.name_id = b.name_id
    /\ a.end_name_id = b.end_name_id /\ a.thread_id = b.thread_id

C31_FarRangesEmitted ==
    \A w \in Windows :
        LET merged == MergeOf(w)
            skip_thr == skip_threshold(w[1], w[2])
            kept == KeptRanges(channel_frame(t_cs, w[1], w[2]))
        IN \A i \in DOMAIN merged :
              MustKeep(merged, i, skip_thr) =>
                 Cardinality({j \in DOMAIN merged :
                                 /\ MustKeep(merged, j, skip_thr)
                                 /\ SameRange(merged[j], merged[i])})
                   <= Cardinality({k \in DOMAIN kept :
                                      SameRange(kept[k], merged[i])})

\* A frame in which a range was skipped and the range right after a skipped
\* one is emitted for its duration alone.
C31_Witness ==
    \E w \in Windows :
        LET merged == MergeOf(w)
            skip_thr == skip_threshold(w[1], w[2])
            frame == channel_frame(t_cs, w[1], w[2])
            kept == KeptRanges(frame)
        IN \E i \in DOMAIN merged :
              /\ i > 2
              /\ merged[i].end - merged[i].start >= skip_thr
              /\ merged[i].start - merged[i - 1].start < skip_thr
              /\ ~MustKeep(merged, i - 1, skip_thr)
              /\ \A k \in DOMAIN kept : ~SameRange(kept[k], merged[i - 1])
              /\ \E k \in DOMAIN kept : SameRange(kept[k], merged[i])

(***************************************************************************)
(* C32: when the window holds at least one instant of the channel, the     *)
(* last of them in tm order is in the frame's instant section, whatever    *)
(* the skipper decided for the others.                                     *)
(***************************************************************************)
C32_LastInstantEmitted ==
    \A w \in Windows :
        LET win == request_instant_events(t_cs, w[1], w[2])
            out == channel_frame(t_cs, w[1], w[2]).instants
        IN win # << >> =>
              /\ out # << >>
              /\ out[Len(out)].tm = win[Len(win)].tm
              /\ out[Len(out)].name_id = win[Len(win)].name_id

\* A dense window: an instant was skipped, and the last instant is close to
\* the one before it, which was skipped.
C32_Witness ==
    \E w \in Windows :
        LET win == request_instant_events(t_cs, w[1], w[2])
            thr == skip_threshold(w[1], w[2])
            f == channel_frame(t_cs, w[1], w[2])
        IN /\ Len(win) >= 3
           /\ win[Len(win)].tm - win[Len(win) - 1].tm < thr
           /\ win[Len(win) - 1].tm < win[Len(win)].tm
           /\ \A k \in DOMAIN f.instants :
                 f.instants[k].tm # win[Len(win) - 1].tm
           /\ f.instants[Len(f.instants)].tm = win[Len(win)].tm


(***************************************************************************)
(* C33: the msg_id values of the NewEventsHeader messages sent on one      *)
(* WebSocket are 0, 1, 2, ... in send order, across successive range       *)
(* requests, never reset and never repeated.                               *)
(***************************************************************************)
RECURSIVE HeaderIds(_, _)
HeaderIds(msgs, i) ==
    IF i > Len(msgs) THEN << >>
    ELSE (IF IsType(msgs[i], "NewEventsHeader") THEN << msgs[i].msg_id >>
          ELSE << >>) \o HeaderIds(msgs, i + 1)

C33_MsgIdsIncreasing ==
    \A ws \in DOMAIN socket :
        LET ids == HeaderIds(socket[ws], 1)
        IN \A i \in DOMAIN ids : ids[i] = i - 1

\* The same for the sockets that carried fewer frames than msg_id has values.
C33_IncreasingBelowOverflow ==
    \A ws \in DOMAIN socket :
        LET ids == HeaderIds(socket[ws], 1)
        IN \A i \in DOMAIN ids : i <= MSG_ID_MODULUS => ids[i] = i - 1

(***************************************************************************)
(* C34: all frames of one dispatched range request are computed from one   *)
(* store state, the store of the actor at the end of the turn that         *)
(* dispatches: one frame per channel of that store, each the frame of that *)
(* channel's content, with the range count the skipper was configured with *)
(* equal to the number of ranges the pass went through.                    *)
(***************************************************************************)
FrameOfStore(item, st, w) ==
    /\ item.channel_id \in DOMAIN st.channel_events
    /\ LET cs == st.channel_events[item.channel_id]
           f == channel_frame(cs, w[1], w[2])
       IN /\ item.data = FrameRecords(f)
          /\ item.stats = f.stats
          /\ item.stats.total_range
                = Len(request_range_events(cs, w[1], w[2]))
                  + Len(request_cross_thread_range_events(cs, w[1], w[2]))

GroupOf(addr) ==
    {addr} \cup UNION {DiscoveredClients[i] :
                         i \in {j \in DOMAIN DiscoveredClients :
                                   addr \in DiscoveredClients[j]}}

ConnectedIn(group) ==
    {id \in DOMAIN sparkles_connections : sparkles_connections[id] \in group}

C35_OneConnectWins ==
    /\ [](budget.disconnects = 0 =>
            \A addr \in ConnectAddrs :
                Cardinality(ConnectedIn(GroupOf(addr))) <= 1)
    /\ [][(ManagerTakes("Connect") /\ budget.disconnects = 0) =>
            LET m == Head(control_msgs)
                group == GroupOf(m.addr)
            IN /\ IsSome(ConnectAnswer(m))
               /\ Unwrap(ConnectAnswer(m)).ok <=> ConnectedIn(group) = {}
               /\ Cardinality({id \in DOMAIN sparkles_connections' :
                                  sparkles_connections'[id] \in group}) = 1
               /\ \E a \in group : a \in active_connections'
      ]_vars

\* Two sessions asked for addresses of one group and both answers are
\* there, not yet taken: one Ok and one group error.
C35_Witness ==
    /\ budget.disconnects = 0
    /\ \E ws1, ws2 \in DOMAIN session :
          /\ ws1 # ws2
          /\ IsSome(session[ws1].connect_resp)
          /\ Unwrap(session[ws1].connect_resp).ok
          /\ IsSome(session[ws2].connect_resp)
          /\ ~Unwrap(session[ws2].connect_resp).ok
          /\ Unwrap(session[ws2].connect_resp).msg
                = "Already connected to this client"
    /\ Cardinality(ConnectedIn(GroupOf("a1"))) = 1

(***************************************************************************)
(* C36: a session that accepted a RequestNewRange for a registered         *)
(* connection and is Waiting eventually sends EventsFinished and leaves    *)
(* Waiting, whatever the number of channels of the store.                  *)
(***************************************************************************)
Waiting(ws) ==
    /\ ws \in DOMAIN session
    /\ session[ws].pc # "closed"
    /\ session[ws].is_channel_registered

C36_RequestEventuallyFinished ==
    \A ws \in 0..(PendingSessions - 1) : Waiting(ws) ~> ~Waiting(ws)

\* Once the store has more channels than a reply channel has permits, a
\* turn of the actor leaves a request pending under every key that had one.
C36_OverCapacityStaysPending ==
    [][\A c \in DOMAIN active_sending_requests :
         \A k \in DOMAIN active_sending_requests[c] :
            Cardinality(DOMAIN storage[c].channel_events) > EVENTS_CHANNEL_CAP
               => /\ k \in DOMAIN active_sending_requests'[c]
                  /\ Cardinality(DOMAIN storage'[c].channel_events)
                        > EVENTS_CHANNEL_CAP
      ]_vars


(***************************************************************************)
(* C37: when the actor handles RequestNewRange (with the dispatch or the   *)
(* failed reservation of the same turn), GetEventNames, GetChannelNames,   *)
(* GetConnectionTimestamps or GetStorageStats, its store is the same       *)
(* before and after; a store changes only in a turn that ingests a         *)
(* producer message or handles SetChannelName.                             *)
(***************************************************************************)
ReadOnlyTypes ==
    {"RequestNewRange", "GetEventNames", "GetChannelNames",
     "GetConnectionTimestamps", "GetStorageStats"}

C37_QueriesLeaveStore ==
    [][\A c \in DOMAIN storage :
         /\ (ActorTakes(c) /\ Head(mailbox[c])[2].type \in ReadOnlyTypes)
               => storage'[c] = storage[c]
         /\ storage'[c] # storage[c]
               => \/ ActorTakes(c) /\ Head(mailbox[c])[2].type = "SetChannelName"
                  \/ budget'.batches # budget.batches
      ]_vars

\* Two queries were handled by an actor whose store holds events and more
\* channels than a reply channel has permits, and the range request of the
\* session was put back.
C37_Witness ==
    \E c \in DOMAIN storage :
       /\ budget.query_ticks = MaxArmQueries
       /\ mailbox[c] = << >>
       /\ Cardinality(DOMAIN storage[c].channel_events) > EVENTS_CHANNEL_CAP
       /\ IsSome(storage[c].conn_timestamps)
       /\ DOMAIN active_sending_requests[c] # {}
       /\ DOMAIN storage[c].channel_names = {}

\* A range request was dispatched from a store holding events, and the
\* store is as ingestion left it.
C37_WitnessDispatched ==
    \E c \in DOMAIN storage, ws \in DOMAIN dispatched :
       /\ IsSome(dispatched[ws])
       /\ Len(Unwrap(dispatched[ws])) = EVENTS_CHANNEL_CAP
       /\ budget.query_ticks = MaxArmQueries
       /\ mailbox[c] = << >>
       /\ IsSome(storage[c].conn_timestamps)

(***************************************************************************)
(* C38: after any sequence of Connect and Disconnect control messages, no  *)
(* two registered connections that were not the target of a Disconnect     *)
(* share an address, and an address is in active_connections exactly when  *)
(* such a connection exists for it.                                        *)
(***************************************************************************)
\* The manager handled a Disconnect for the registered connection c.
DisconnectTarget(c) == c \in disconnect_sent

LiveConnections ==
    {c \in DOMAIN sparkles_connections : ~DisconnectTarget(c)}

C38_NoSharedAddress ==
    \A c1, c2 \in LiveConnections :
       sparkles_connections[c1] = sparkles_connections[c2] => c1 = c2

C38_ActiveIffLive ==
    \A addr \in ConnectAddrs :
       addr \in active_connections
          <=> \E c \in LiveConnections : sparkles_connections[c] = addr

C38_ActiveMatchesLive == C38_NoSharedAddress /\ C38_ActiveIffLive

\* The same holds as long as at most one Disconnect was sent, which cannot
\* be a repeated one.
C38_HoldsForOneDisconnect ==
    budget.disconnects <= 1 => C38_ActiveMatchesLive

(***************************************************************************)
(* C39: when a producer's channel closed on its own, the connection's      *)
(* address stays in active_connections and its entry stays in the          *)
(* registry, and every Connect to that address is answered                 *)
(* Err("Already connected"), until the manager has handled a Disconnect    *)
(* for that connection.                                                    *)
(***************************************************************************)
ClosedOnItsOwn(c) ==
    /\ c \in DOMAIN producer_open
    /\ ~producer_open[c]
    /\ c \notin disconnect_sent

\* After the step the channel of c has closed on its own and the manager
\* has handled no Disconnect for c.
StillClosedOnItsOwn(c) ==
    /\ c \in DOMAIN producer_open
    /\ ~producer_open'[c]
    /\ c \notin disconnect_sent'

\* The connection keeps its entry and its address stays in
\* active_connections, from the step that closes the channel on.
StaysConnected(c) ==
    (StillClosedOnItsOwn(c)
        /\ sparkles_connections[c] \in active_connections)
       => /\ c \in DOMAIN sparkles_connections'
          /\ sparkles_connections'[c] = sparkles_connections[c]
          /\ sparkles_connections[c] \in active_connections'

ConnectRefused(c) ==
    (/\ ManagerTakes("Connect")
     /\ StillClosedOnItsOwn(c)
     /\ sparkles_connections[c] \in active_connections
     /\ Head(control_msgs).addr = sparkles_connections[c])
       => ConnectAnswer(Head(control_msgs))
             = Some([ok |-> FALSE, msg |-> "Already connected"])

C39_ClosedStaysConnected ==
    [][\A c \in DOMAIN producer_open :
          StaysConnected(c) /\ ConnectRefused(c)]_vars

\* The manager handles a Disconnect for an id it already sent one to.
RepeatedDisconnect ==
    /\ ManagerTakes("Disconnect")
    /\ Head(control_msgs).id \in disconnect_sent

\* The claim holds in every step but a repeated Disconnect.
C39_HoldsWithoutRepeat ==
    [][~RepeatedDisconnect =>
          \A c \in DOMAIN producer_open :
             StaysConnected(c) /\ ConnectRefused(c)]_vars

\* A Connect was refused for the address of a connection whose channel had
\* closed on its own.
C39_RefusedAfterClose ==
    /\ \E c \in DOMAIN producer_open :
          ClosedOnItsOwn(c) /\ sparkles_connections[c] \in active_connections
    /\ disconnect_sent = {}
    /\ budget.connects = 2
    /\ control_msgs = << >>
    /\ \E ws \in DOMAIN socket : \E i \in DOMAIN socket[ws] :
          /\ IsType(socket[ws][i], "ConnectError")
          /\ socket[ws][i].msg = "Already connected"

(***************************************************************************)
(* C40: in every frame the instant records plus skipped_instant are the    *)
(* instants of the channel in [start, end); the local and cross-thread     *)
(* range records plus skipped_range are total_range, which is the number   *)
(* of the channel's ranges overlapping the window; skipped never exceeds   *)
(* total in either class.                                                  *)
(***************************************************************************)
InstantsInWindow(w) ==
    Cardinality({i \in DOMAIN t_instants :
                    w[1] <= t_instants[i].tm /\ t_instants[i].tm < w[2]})

\* A range overlaps the window when it starts before the window's end and
\* ends after its start.
RangesOverlapping(w) ==
    Cardinality({i \in DOMAIN t_ranges :
                    t_ranges[i].start < w[2] /\ t_ranges[i].end > w[1]})

StatsAccount(frame, w) ==
    /\ Len(frame.instants) + frame.stats.skipped_instant = InstantsInWindow(w)
    /\ Len(KeptRanges(frame)) + frame.stats.skipped_range
          = frame.stats.total_range
    /\ frame.stats.total_range = RangesOverlapping(w)
    /\ frame.stats.skipped_instant <= frame.stats.total_instant
    /\ frame.stats.skipped_range <= frame.stats.total_range

C40_StatsAccountForEvents ==
    \A w \in Windows :
        LET frame == channel_frame(t_cs, w[1], w[2])
        IN ~frame.panicked /\ StatsAccount(frame, w)

\* A frame in which ranges were skipped and ranges were kept, next to two
\* instants.
C40_Witness ==
    \E w \in Windows :
        LET frame == channel_frame(t_cs, w[1], w[2])
        IN /\ frame.stats.skipped_range >= 1
           /\ Len(KeptRanges(frame)) >= 2
           /\ Len(frame.instants) = 2
           /\ frame.stats.skipped_instant = 0

\* A frame in which instants were skipped.
C40_WitnessSkippedInstants ==
    \E w \in Windows :
        LET frame == channel_frame(t_cs, w[1], w[2])
        IN /\ frame.stats.skipped_instant >= 1
           /\ Len(frame.instants) >= 2

=============================================================================
